---- MODULE Spec2Model ----
(***************************************************************************)
(* Dash480: layout publisher (publish_all) and touch-event router          *)
(* (_state_event) of custom_components/dash480, with the page-entry slot   *)
(* operations of the button / select / text platforms.                     *)
(*                                                                         *)
(* Representation                                                          *)
(*   entity id  "switch.a"      <<"switch", "a">>   (split(".")[0] is [1]) *)
(*   empty slot ""              << >>                                      *)
(*   topic tail "p2b12"         <<2, "b", 12>>                             *)
(*   dict                       function (DOMAIN = keys)                   *)
(*   list                       sequence                                   *)
(***************************************************************************)
EXTENDS Integers, Sequences, FiniteSets, TLC

VARIABLES
    entries,    \* the page config entries linked to the panel, by entry id
    states,     \* hass.states: entity id -> state and attributes
    data,       \* hass.data[DOMAIN][entry_id] of the panel entry
    runs,       \* the _publish_all coroutines, by task
    cooldown,   \* popup_cooldown_until - time.monotonic(), in ticks, 0 when past
    shown,      \* the pages whose popup overlay is visible on the panel
    out,        \* what the last step sent: handler, service calls, MQTT messages
    panels,     \* the options of the panel config entries, by entry id
    publishers, \* hass.data[DOMAIN]["publishers"]: the panel entries set up
    listeners   \* the state-change listeners subscribed with the host, by handle

vars == <<entries, states, data, runs, cooldown, shown, out, panels, publishers, listeners>>

----------------------------------------------------------------------------
(* Bounds of the model *)

\* number of publish_all calls, each its own coroutine
MaxRuns == 2
\* largest button index a matrix event carries in the model
MaxIndex == 3
\* the slots that the slot texts, the Remove Slot select and the flows write in the model
MaxTextSlot == 2

----------------------------------------------------------------------------
(* Program constants *)

\* slots s1..s12 of a page entry
NumSlots == 12
\* first option page id
FirstOptionPage == 50
\* popup cooldown, 0.35 s, counted in ticks of 0.35 s
PopupCooldown == 1

NoEnt == << >>
None == "None"
\* st.attributes.get("percentage") of a state without that attribute
NoPct == -1

SwitchA == <<"switch", "a">>
LightP  == <<"light", "p">>
LightC  == <<"light", "c">>
FanF    == <<"fan", "f">>
CoverS  == <<"cover", "s">>
SensorT == <<"sensor", "t">>

Entities == {SwitchA, LightP, LightC, FanF, CoverS, SensorT}

\* ent.split(".")[0]
DomainOf(ent) == ent[1]

\* the entity id as text
EntityIdText(ent) == ent[1] \o "." \o ent[2]

----------------------------------------------------------------------------
(* dict helpers *)

EmptyMap == << >>

\* d[k] = v
MapSet(m, k, v) == (k :> v) @@ m

\* d.setdefault(k, []).append(v)
MapAppend(m, k, v) ==
    IF k \in DOMAIN m THEN [m EXCEPT ![k] = Append(@, v)] ELSE (k :> <<v>>) @@ m

\* d.get(k, dflt)
MapGet(m, k, dflt) == IF k \in DOMAIN m THEN m[k] ELSE dflt

\* d.pop(k, None)
MapPop(m, k) == [x \in (DOMAIN m) \ {k} |-> m[x]]

Min(a, b) == IF a < b THEN a ELSE b
Max(a, b) == IF a > b THEN a ELSE b

----------------------------------------------------------------------------
(* Layout templates *)

Tile(row, col) == [row |-> row, col |-> col, rs |-> 1, cs |-> 1, special |-> None]
Wide(row, special) == [row |-> row, col |-> 0, rs |-> 1, cs |-> 3, special |-> special]

LAYOUT_TEMPLATES ==
    [ grid_3x2   |-> << Tile(0,0), Tile(0,1), Tile(0,2),
                        Tile(1,0), Tile(1,1), Tile(1,2) >>,
      grid_3x3   |-> << Tile(0,0), Tile(0,1), Tile(0,2),
                        Tile(1,0), Tile(1,1), Tile(1,2),
                        Tile(2,0), Tile(2,1), Tile(2,2) >>,
      clock_top  |-> << Wide(0, "clock"),
                        Tile(1,0), Tile(1,1), Tile(1,2),
                        Tile(2,0), Tile(2,1), Tile(2,2) >>,
      shades_row |-> << Tile(0,0), Tile(0,1), Tile(0,2),
                        Tile(1,0), Tile(1,1), Tile(1,2),
                        Wide(2, "shades") >> ]

tile_specs_for_layout(layout) ==
    IF layout \in DOMAIN LAYOUT_TEMPLATES
    THEN LAYOUT_TEMPLATES[layout]
    ELSE LAYOUT_TEMPLATES["grid_3x3"]

\* layout as _publish_page_num chooses it: a cover in any slot forces shades_row,
\* no layout means grid_3x2
EffectiveLayout(pe) ==
    LET hasCover == \E i \in 1..NumSlots :
                        pe.s[i] # NoEnt /\ DomainOf(pe.s[i]) = "cover"
        l1 == IF pe.layout # "shades_row" /\ hasCover THEN "shades_row" ELSE pe.layout
    IN  IF l1 = None THEN "grid_3x2" ELSE l1

\* [(key, ent) for key, ent in slots_all if ent]
FilledSlots(pe) ==
    LET idx == SelectSeq([i \in 1..NumSlots |-> i], LAMBDA i : pe.s[i] # NoEnt)
    IN  [k \in 1..Len(idx) |-> <<idx[k], pe.s[idx[k]]>>]

IsCoverSlot(sl) == DomainOf(sl[2]) = "cover"
IsOtherSlot(sl) == DomainOf(sl[2]) # "cover"

RECURSIVE AssignShades(_, _, _, _)
AssignShades(tiles, i, covers, others) ==
    IF i > Len(tiles) THEN << >>
    ELSE LET shades == tiles[i].special = "shades"
             fromCover == IF shades THEN covers # << >>
                          ELSE others = << >> /\ covers # << >>
             fromOther == IF shades THEN covers = << >> /\ others # << >>
                          ELSE others # << >>
             slot == IF fromCover THEN Head(covers)
                     ELSE IF fromOther THEN Head(others) ELSE NoEnt
         IN  << <<tiles[i], slot>> >> \o
             AssignShades(tiles, i + 1,
                          IF fromCover THEN Tail(covers) ELSE covers,
                          IF fromOther THEN Tail(others) ELSE others)

\* pair the tiles of the layout with the filled slots
Assignments(pe) ==
    LET layout == EffectiveLayout(pe)
        tiles  == tile_specs_for_layout(layout)
        filled == FilledSlots(pe)
    IN  IF layout = "shades_row"
        THEN AssignShades(tiles, 1, SelectSeq(filled, IsCoverSlot),
                          SelectSeq(filled, IsOtherSlot))
        ELSE [i \in 1..Len(tiles) |->
                 <<tiles[i], IF i <= Len(filled) THEN filled[i] ELSE NoEnt>>]

----------------------------------------------------------------------------
(* Geometry of _publish_page_num *)

cell_xy(rc, cc) ==
    LET base_x == 24
        col_step == 128 + 24
        base_y == 80
        avail == 430 - base_y
        row_gap == 20
        tile_h == (avail - row_gap) \div 2
        row_step == tile_h + row_gap
    IN  <<base_x + cc * col_step, base_y + rc * row_step>>

cell_wh(rs, cs) == <<128 * cs + 24 * (cs - 1), 120 * rs + 20 * (rs - 1)>>

----------------------------------------------------------------------------
(* MQTT messages *)

Topic(p, t, id) == <<p, t, id>>

ClearPage(p) == [cmd |-> "clearpage", page |-> p, obj |-> "", id |-> 0,
                 text |-> "", args |-> << >>]
ClearAll == [cmd |-> "clearpage", page |-> -1, obj |-> "all", id |-> 0,
             text |-> "", args |-> << >>]
Jsonl(p, obj, id, text, args) ==
    [cmd |-> "jsonl", page |-> p, obj |-> obj, id |-> id, text |-> text, args |-> args]
\* command/p<p><t><id>.<attr> = text
SetAttr(p, t, id, attr, text) ==
    [cmd |-> attr, page |-> p, obj |-> t, id |-> id, text |-> text, args |-> << >>]
PageCmd(p) == [cmd |-> "page", page |-> p, obj |-> "", id |-> 0,
               text |-> "", args |-> << >>]

----------------------------------------------------------------------------
(* Rendering of one page: _publish_page_num *)

\* "hs"/"rgb"/"rgbw"/"rgbww" occurs in ",".join(modes).lower(); over the colour
\* mode names of the host this is membership of one of these four modes
has_color(modes) ==
    \E i \in 1..Len(modes) : modes[i] \in {"hs", "rgb", "rgbw", "rgbww"}

\* st.state, or "--" when unknown / unavailable / empty
StateVal(st, ent) ==
    IF st[ent].state \in {"unknown", "unavailable", ""} THEN "--" ELSE st[ent].state

\* the overlay widgets prebuilt on every page
OverlayTargets == << <<"b", 193>>, <<"o", 194>>, <<"l", 195>>, <<"m", 196>>, <<"b", 197>> >>

\* locals that carry the option-page counter over from the stored specs
CarriedLocals ==
    [ ctrl_map |-> EmptyMap, sensor_map |-> EmptyMap, matrix_map |-> EmptyMap,
      ent_toggle_map |-> EmptyMap, ent_matrix_map |-> EmptyMap,
      color_btn_map |-> EmptyMap, fan_status_map |-> EmptyMap,
      option_specs |-> << >>, option_open_map |-> EmptyMap,
      option_close_map |-> EmptyMap, option_page_titles |-> EmptyMap,
      next_option_page |-> FirstOptionPage + Len(data.option_specs),
      render_index |-> 1, msgs |-> << >> ]

\* the local maps a publish_all run builds before it stores them
EmptyLocals ==
    [ ctrl_map |-> EmptyMap, sensor_map |-> EmptyMap, matrix_map |-> EmptyMap,
      ent_toggle_map |-> EmptyMap, ent_matrix_map |-> EmptyMap,
      color_btn_map |-> EmptyMap, fan_status_map |-> EmptyMap,
      option_specs |-> << >>, option_open_map |-> EmptyMap,
      option_close_map |-> EmptyMap, option_page_titles |-> EmptyMap,
      next_option_page |-> FirstOptionPage, render_index |-> 1, msgs |-> << >> ]

\* an allocator that hands out the same id again
alloc_same_page(acc) == acc

\* nonlocal next_option_page; page_id = next_option_page; next_option_page += 1
alloc_option_page(acc) == [acc EXCEPT !.next_option_page = @ + 1]

Emit(acc, ms) == [acc EXCEPT !.msgs = @ \o ms]

\* shades bar, label and Up/Pause/Down matrix, with the matrix registered
ShadesWidgets(p, ent, label, base3, row, y, h, acc) ==
    LET full_x == cell_xy(row, 0)[1]
        full_w == cell_wh(1, 3)[1]
        full_y == y + (h - 88) \div 2
        mid == base3 + 7
        mi == [type |-> "cover_cmd", entity |-> ent]
        a1 == Emit(acc, << Jsonl(p, "obj", base3 + 5, "", <<full_x, full_y, full_w, 88>>),
                           Jsonl(p, "label", base3 + 6, label,
                                 <<full_x + 18, full_y + 12, full_w - 36, 24>>),
                           Jsonl(p, "btnmatrix", mid, "Up,Pause,Down",
                                 <<full_x + 30, full_y + 42, full_w - 60, 56>>) >>)
    IN  [a1 EXCEPT !.matrix_map = MapSet(@, Topic(p, "m", mid), mi),
                   !.ent_matrix_map = MapAppend(@, ent, <<p, mid, mi>>)]

\* an option spec whose trigger is the tile's main toggle button
OptionSpecOnToggle(p, ent, type, label, base3, acc) ==
    [entity |-> ent, type |-> type, origin_page |-> p,
     page_id |-> acc.next_option_page, friendly_name |-> label,
     trigger_topic |-> Topic(p, "b", base3 + 2)]

\* the option page reserved for a fan or a colour light tile
OptionSpec(p, ent, type, label, base3, acc) ==
    [entity |-> ent, type |-> type, origin_page |-> p,
     page_id |-> acc.next_option_page, friendly_name |-> label,
     trigger_topic |-> Topic(p, "b", base3 + 4)]

WithOption(p, ent, type, label, hint, base3, x, y, w, h, acc) ==
    LET spec == OptionSpec(p, ent, type, label, base3, acc)
        a1 == alloc_option_page(acc)
        a2 == [a1 EXCEPT !.option_specs = Append(@, spec),
                         !.option_open_map = MapSet(@, spec.trigger_topic, spec)]
        a3 == Emit(a2, << Jsonl(p, "label", base3 + 3, hint, <<x + 8, y + h - 36, w - 16, 28>>) >>)
        a4 == IF type = "fan"
              THEN [a3 EXCEPT !.fan_status_map = MapAppend(@, ent, <<p, <<"l", base3 + 3>> >>)]
              ELSE a3
    IN  Emit(a4, << Jsonl(p, "btn", base3 + 4, "", <<x + 8, y + h - 36, w - 16, 28>>) >>)

\* one iteration of "for spec, slot in assignments"
RenderTile(p, layout, spec, slot, st, acc) ==
    IF slot = NoEnt THEN acc
    ELSE
    LET xy == cell_xy(spec.row, spec.col)
        wh == cell_wh(spec.rs, spec.cs)
        x == xy[1]  y == xy[2]  w == wh[1]  h == wh[2]
    IN
    IF spec.special = "clock"
    THEN Emit(acc, << Jsonl(p, "label", 70, "00:00", <<x, y + 4, w, h - 8>>) >>)
    ELSE
    LET ent == slot[2]
        base3 == Min(acc.render_index, 9) * 10
        a0 == [acc EXCEPT !.render_index = @ + 1]
        label == st[ent].friendly_name
        domain == DomainOf(ent)
    IN
    IF spec.special = "shades"
    THEN ShadesWidgets(p, ent, label, base3, spec.row, y, h, a0)
    ELSE
    LET a1 == Emit(a0, << Jsonl(p, "obj", base3 + 1, "", <<x, y, w, h>>),
                          Jsonl(p, "label", base3, label, <<x + 8, y + 6, Max(112, w - 16), 24>>) >>)
        bx == x + Max(20, (w - 96) \div 2)
        by == y + 36
    IN
    IF domain \in {"switch", "light", "fan"}
    THEN LET icon == IF domain = "fan" THEN "E210" ELSE "E425"
             a2 == Emit(a1, << Jsonl(p, "btn", base3 + 2, icon, <<bx, by, 96, 72>>) >>)
             a3 == [a2 EXCEPT !.ent_toggle_map = MapAppend(@, ent, <<p, base3 + 2>>)]
         IN  IF domain = "fan"
             THEN WithOption(p, ent, "fan", label, "Tap for speed", base3, x, y, w, h, a3)
             ELSE IF domain = "light" /\ has_color(st[ent].modes)
             THEN WithOption(p, ent, "light_color", label, "Tap for color", base3, x, y, w, h, a3)
             ELSE a3
    ELSE IF domain = "cover" /\ layout = "shades_row"
    THEN LET a2 == ShadesWidgets(p, ent, label, base3, spec.row, y, h, a1)
         IN  \* "if option_spec is None: ctrl_map[...] = ent" sits inside this branch
             [a2 EXCEPT !.ctrl_map = MapSet(@, Topic(p, "b", base3 + 2), ent)]
    ELSE LET a2 == Emit(a1, << Jsonl(p, "btn", base3 + 2, StateVal(st, ent), <<bx, by, 88, 64>>) >>)
         IN  [a2 EXCEPT !.sensor_map = MapAppend(@, ent, <<p, base3 + 2>>)]

RECURSIVE RenderTiles(_, _, _, _, _, _)
RenderTiles(p, layout, asg, i, st, acc) ==
    IF i > Len(asg) THEN acc
    ELSE RenderTiles(p, layout, asg, i + 1, st,
                     RenderTile(p, layout, asg[i][1], asg[i][2], st, acc))

\* ring = [1] + nums
PrevOf(ring, p) ==
    LET i == CHOOSE k \in 1..Len(ring) : ring[k] = p /\ \A j \in 1..(k - 1) : ring[j] # p
    IN  ring[((i - 2) % Len(ring)) + 1]
NextOf(ring, p) ==
    LET i == CHOOSE k \in 1..Len(ring) : ring[k] = p /\ \A j \in 1..(k - 1) : ring[j] # p
    IN  ring[(i % Len(ring)) + 1]

\* clearpage, page object, background and the hidden overlay of page p
PageBaseLines(p, ring) ==
    << ClearPage(p),
       Jsonl(p, "page", 0, "", <<PrevOf(ring, p), NextOf(ring, p)>>),
       Jsonl(p, "obj", 80, "", <<0, 0, 480, 480>>),
       Jsonl(p, "btn", 193, "hidden", <<0, 0, 480, 480>>),
       Jsonl(p, "obj", 194, "hidden", <<60, 120, 360, 240>>),
       Jsonl(p, "label", 195, "hidden", <<60, 132, 360, 32>>),
       Jsonl(p, "btnmatrix", 196, "hidden", <<92, 176, 296, 96>>),
       Jsonl(p, "btn", 197, "hidden", <<316, 312, 92, 36>>) >>

\* the local maps after page p of entry pe has been drawn
publish_page_num(p, pe, ring, st, acc) ==
    RenderTiles(p, EffectiveLayout(pe), Assignments(pe), 1, st,
                Emit([acc EXCEPT !.render_index = 1], PageBaseLines(p, ring)))

----------------------------------------------------------------------------
(* Option pages: _publish_option_pages *)

\* (hex colour, service payload, label) of the six colour chips
ColorChips ==
    << <<"#FFFFFF", <<"rgb_color", 255, 255, 255>>, "White">>,
       <<"#FF0000", <<"rgb_color", 255, 0, 0>>, "Red">>,
       <<"#00FF00", <<"rgb_color", 0, 255, 0>>, "Green">>,
       <<"#0000FF", <<"rgb_color", 0, 0, 255>>, "Blue">>,
       <<"#FDE68A", <<"color_temp_kelvin", 2700>>, "Warm">>,
       <<"#D0E1FF", <<"color_temp_kelvin", 6500>>, "Cool">> >>

RECURSIVE ChipWidgets(_, _, _, _)
ChipWidgets(page_id, entity, idx, acc) ==
    IF idx >= Len(ColorChips) THEN acc
    ELSE LET btn_id == 80 + idx
             cx == 72 + (idx % 3) * (96 + 24)
             cy == 216 + (idx \div 3) * (96 + 40)
             chip == ColorChips[idx + 1]
             a1 == Emit(acc, << Jsonl(page_id, "btn", btn_id, chip[3], <<cx, cy, 96, 96>>) >>)
         IN  ChipWidgets(page_id, entity, idx + 1,
                 [a1 EXCEPT !.color_btn_map =
                     MapSet(@, Topic(page_id, "b", btn_id),
                            [entity |-> entity, payload |-> chip[2], main_btn |-> 40])])

\* "options": ["Off","Low","Med","High"] of the fan speed matrix
FanSpeedOptions == <<"Off", "Low", "Med", "High">>

RECURSIVE JoinComma(_)
JoinComma(seq) ==
    IF Len(seq) = 0 THEN ""
    ELSE IF Len(seq) = 1 THEN seq[1]
    ELSE seq[1] \o "," \o JoinComma(Tail(seq))

\* one iteration of "for spec in option_specs"
OptionPage(spec, acc) ==
    LET page_id == spec.page_id
        origin == spec.origin_page
        entity == spec.entity
        a1 == [acc EXCEPT !.option_page_titles =
                              MapSet(@, page_id, spec.friendly_name \o " Options")]
        a2 == Emit(a1, << ClearPage(page_id),
                          Jsonl(page_id, "page", 0, "", <<origin, origin>>),
                          Jsonl(page_id, "obj", 10, "", <<0, 0, 480, 480>>),
                          Jsonl(page_id, "label", 11, spec.friendly_name, <<24, 24, 432, 48>>),
                          Jsonl(page_id, "btn", 190, "Close", <<360, 24, 96, 48>>) >>)
        a3 == [a2 EXCEPT !.option_close_map =
                              MapSet(@, Topic(page_id, "b", 190),
                                     [return_page |-> origin, entity |-> entity])]
    IN  IF spec.type = "fan"
        THEN LET meta == [type |-> "fan_select", entity |-> entity]
                 b1 == Emit(a3, << Jsonl(page_id, "label", 40, "--", <<24, 96, 432, 36>>) >>)
                 b2 == [b1 EXCEPT !.fan_status_map = MapAppend(@, entity, <<page_id, <<"l", 40>> >>)]
                 b3 == Emit(b2, << Jsonl(page_id, "btnmatrix", 60, JoinComma(FanSpeedOptions),
                                         <<72, 168, 336, 144>>) >>)
             IN  [b3 EXCEPT !.matrix_map = MapSet(@, Topic(page_id, "m", 60), meta),
                            !.ent_matrix_map = MapAppend(@, entity, <<page_id, 60, meta>>)]
        ELSE IF spec.type = "light_color"
        THEN LET b1 == Emit(a3, << Jsonl(page_id, "btn", 40, "Power", <<168, 108, 144, 72>>) >>)
                 b2 == [b1 EXCEPT !.ctrl_map = MapSet(@, Topic(page_id, "b", 40), entity),
                                  !.ent_toggle_map = MapAppend(@, entity, <<page_id, 40>>)]
             IN  ChipWidgets(page_id, entity, 0, b2)
        ELSE a3

RECURSIVE publish_option_pages(_, _, _)
publish_option_pages(specs, i, acc) ==
    IF i > Len(specs) THEN acc
    ELSE publish_option_pages(specs, i + 1, OptionPage(specs[i], acc))

----------------------------------------------------------------------------
(* Header, footer and home page: _home_layout_lines *)

home_layout_lines(title, temp_text) ==
    << Jsonl(0, "page", 0, "", << >>),
       Jsonl(1, "page", 0, "", << >>),
       Jsonl(0, "obj", 10, "", <<0, 0, 480, 56>>),
       Jsonl(0, "label", 1, "--", <<12, 8, 120, 40>>),
       Jsonl(0, "btn", 2, title, <<140, 8, 200, 40>>),
       Jsonl(0, "btn", 3, IF temp_text = "" THEN "--" ELSE temp_text, <<320, 8, 148, 40>>),
       Jsonl(0, "btn", 90, "page prev", <<0, 430, 160, 50>>),
       Jsonl(0, "btn", 91, "page 1", <<160, 430, 160, 50>>),
       Jsonl(0, "btn", 92, "page next", <<320, 430, 160, 50>>),
       Jsonl(1, "obj", 180, "", <<0, 0, 480, 480>>),
       Jsonl(1, "label", 100, "00:00", <<0, 72, 480, 96>>),
       Jsonl(1, "btn", 112, "Relay 1", <<25, 300, 120, 60>>),
       Jsonl(1, "btn", 122, "Relay 2", <<175, 300, 120, 60>>),
       Jsonl(1, "btn", 132, "Relay 3", <<325, 300, 120, 60>>) >>

----------------------------------------------------------------------------
(* State *)


\* entry ids in the order hass.config_entries.async_entries returns them
EntryOrder == <<"e1", "e2">>
EntryIds == {EntryOrder[i] : i \in 1..Len(EntryOrder)}

RunIds == 1..MaxRuns

\* the panel whose store, page entries and publish runs the model follows
ThisPanel == "panel"
\* a second panel entry of the same component
OtherPanel == "panel2"
PanelIds == {ThisPanel, OtherPanel}

\* entry.data["node_name"] of the panel entries
NodeName == [p \in PanelIds |-> IF p = ThisPanel THEN "Dash" ELSE "Dash2"]

HomeTitle == NodeName[ThisPanel]

\* entry.options of a panel entry: no home_title (the node name stands in), no
\* temperature entity
InitPanels == [p \in PanelIds |-> [home_title |-> NodeName[p], temp_entity |-> NoEnt]]

\* "tval" of _publish_all and svc_dump_layout, "temp_text" of _push_home_layout
\* as _home_layout_lines shows it
temp_value(opts, st) ==
    IF opts.temp_entity = NoEnt \/ st[opts.temp_entity].state = "" THEN "--"
    ELSE st[opts.temp_entity].state

Slots(ents) == [i \in 1..NumSlots |-> IF i <= Len(ents) THEN ents[i] ELSE NoEnt]

\* f"Page {p}"
PageText(p) == "Page " \o ToString(p)

\* the page config flow stores the title it is given, or "Page <order>"
PageEntry(order, ents, layout) ==
    [present |-> TRUE, page_order |-> order, s |-> Slots(ents), layout |-> layout,
     pending_entity |-> NoEnt, pending_remove_slot |-> 0, title |-> PageText(order)]

AbsentEntry ==
    [present |-> FALSE, page_order |-> 2, s |-> Slots(<< >>), layout |-> None,
     pending_entity |-> NoEnt, pending_remove_slot |-> 0, title |-> PageText(2)]

\* page_entries.sort(key=page_order): stable insertion into a sorted list
RECURSIVE InsertByOrder(_, _, _)
InsertByOrder(sorted, e, ents) ==
    IF sorted = << >> THEN <<e>>
    ELSE IF ents[e].page_order < ents[Head(sorted)].page_order
         THEN <<e>> \o sorted
         ELSE <<Head(sorted)>> \o InsertByOrder(Tail(sorted), e, ents)

RECURSIVE SortEntries(_, _)
SortEntries(ids, ents) ==
    IF ids = << >> THEN << >>
    ELSE InsertByOrder(SortEntries(SubSeq(ids, 1, Len(ids) - 1), ents), ids[Len(ids)], ents)

\* the page entries of the panel, sorted by page_order
page_entries(ents) ==
    SortEntries(SelectSeq(EntryOrder, LAMBDA e : ents[e].present), ents)

page_numbers(ents) ==
    LET pes == page_entries(ents) IN [i \in 1..Len(pes) |-> ents[pes[i]].page_order]

pages_ring(ents) == <<1>> \o page_numbers(ents)

InRing(ring, p) == \E i \in 1..Len(ring) : ring[i] = p

NoOut == [src |-> "", calls |-> << >>, msgs |-> << >>, raised |-> FALSE]

IdleRun == [pc |-> "idle", pages |-> << >>, idx |-> 0, loc |-> EmptyLocals,
            log |-> << >>, cfg |-> << >>, ended |-> "never"]

\* hass.data[DOMAIN][entry_id] as async_setup_entry leaves it
InitData ==
    [ ctrl_map |-> EmptyMap, sensor_map |-> EmptyMap, matrix_map |-> EmptyMap,
      ent_toggle_map |-> EmptyMap, ent_matrix_map |-> EmptyMap,
      color_btn_map |-> EmptyMap, fan_status_map |-> EmptyMap,
      option_specs |-> << >>, option_open_map |-> EmptyMap,
      option_close_map |-> EmptyMap, option_page_titles |-> EmptyMap,
      option_return_map |-> EmptyMap,
      popup_overlay_targets |-> EmptyMap, popup_map |-> EmptyMap,
      current_page |-> 0,
      \* the keys unsub_ent_<entity> and unsub_sensor_<entity>, by entity
      unsub_ent |-> EmptyMap, unsub_sensor |-> EmptyMap ]

InitStates ==
    [e \in Entities |->
        [state |-> IF DomainOf(e) = "sensor" THEN "21" ELSE "off",
         friendly_name |-> EntityIdText(e),
         percentage |-> NoPct, preset_mode |-> "",
         modes |-> IF e = LightC THEN <<"color_temp", "hs">>
                   ELSE IF e = LightP THEN <<"brightness">> ELSE << >>]]

\* the slot assignments the model starts from
TilesA == <<SwitchA, FanF, CoverS>>
TilesB == <<LightC, LightP, SensorT>>

\* page_order is accepted by the config flow from 2 to 99
PageOrders == {2, 50}

InitEntries ==
    { [e \in EntryIds |-> IF e = "e1" THEN a ELSE b] :
        a \in {PageEntry(2, TilesA, None)},
        b \in {AbsentEntry} \cup {PageEntry(o, TilesB, None) : o \in PageOrders} }

Init ==
    /\ entries \in InitEntries
    /\ states = InitStates
    /\ data = InitData
    /\ runs = [r \in RunIds |-> IdleRun]
    /\ cooldown = 0
    /\ shown = {}
    /\ out = NoOut
    /\ panels = InitPanels
    /\ publishers = {ThisPanel}
    /\ listeners = {}

----------------------------------------------------------------------------
(* publish_all *)

PubOut(ms) == [src |-> "publish_all", calls |-> << >>, msgs |-> ms, raised |-> FALSE]

\* clearpage all, header/footer/home, the page list and the empty local maps
PublishAllStart(r) ==
    /\ runs[r].pc = "idle"
    \* run ids are handed out in order, MaxRuns calls in all
    /\ runs[r].ended = "never"
    /\ \A q \in RunIds : q < r => runs[q].ended # "never"
    /\ LET nums == page_numbers(entries)
           home == <<ClearAll>> \o home_layout_lines(panels[ThisPanel].home_title,
                                                     temp_value(panels[ThisPanel], states))
           ms == IF nums = << >> THEN home
                 ELSE home \o << Jsonl(1, "page", 0, "", <<nums[Len(nums)], nums[1]>>) >>
       IN  /\ runs' = [runs EXCEPT ![r] =
                 [pc |-> "pages", pages |-> page_entries(entries), idx |-> 1,
                  loc |-> EmptyLocals, log |-> ms, cfg |-> <<entries, states>>,
                  ended |-> "running"]]
           /\ out' = PubOut(ms)
    /\ shown' = {}
    /\ UNCHANGED <<entries, states, data, cooldown, panels, publishers, listeners>>

\* "for pe in page_entries: await _publish_page_num(p, pe, ...)", one page
PublishPage(r) ==
    LET run == runs[r]
        e == run.pages[run.idx]
        p == entries[e].page_order
        ring == pages_ring(entries)
    IN
    /\ run.pc = "pages"
    /\ run.idx <= Len(run.pages)
    /\ IF ~InRing(ring, p)
       THEN \* ring.index(p) raises ValueError: the coroutine ends, nothing is stored
            /\ runs' = [runs EXCEPT ![r] = [run EXCEPT !.pc = "idle", !.ended = "failed"]]
            /\ out' = PubOut(<< >>)
            /\ UNCHANGED <<data, shown, panels, publishers, listeners>>
       ELSE LET acc == publish_page_num(p, entries[e], ring, states, run.loc)
            IN  /\ runs' = [runs EXCEPT ![r] =
                      [run EXCEPT !.idx = @ + 1,
                                  !.loc = [acc EXCEPT !.msgs = << >>],
                                  !.log = @ \o acc.msgs]]
                /\ out' = PubOut(acc.msgs)
                /\ data' = [data EXCEPT
                      !.popup_overlay_targets = MapSet(@, p, OverlayTargets),
                      !.popup_map = MapSet(MapSet(@, Topic(p, "b", 193),
                                                  [type |-> "close_popup", page |-> p]),
                                           Topic(p, "b", 197),
                                           [type |-> "close_popup", page |-> p])]
                /\ shown' = shown \ {p}
    /\ UNCHANGED <<entries, states, cooldown, panels, publishers, listeners>>

\* the maps of a finished layout replace the stored ones
StoreMaps(d, loc) ==
    [d EXCEPT !.option_open_map = loc.option_open_map,
              !.option_close_map = loc.option_close_map,
              !.option_page_titles = loc.option_page_titles,
              !.option_return_map =
                  [pid \in {loc.option_specs[i].page_id : i \in 1..Len(loc.option_specs)} |->
                      (CHOOSE sp \in {loc.option_specs[i] : i \in 1..Len(loc.option_specs)} :
                          sp.page_id = pid).origin_page],
              !.option_specs = loc.option_specs,
              !.ctrl_map = loc.ctrl_map,
              !.sensor_map = loc.sensor_map,
              !.matrix_map = loc.matrix_map,
              !.ent_toggle_map = loc.ent_toggle_map,
              !.ent_matrix_map = loc.ent_matrix_map,
              !.color_btn_map = loc.color_btn_map,
              !.fan_status_map = loc.fan_status_map]

\* _publish_option_pages, then the stores into hass.data
PublishOptionPages(r) ==
    LET run == runs[r]
        acc == publish_option_pages(run.loc.option_specs, 1, run.loc)
    IN
    /\ run.pc = "pages"
    /\ run.idx > Len(run.pages)
    /\ runs' = [runs EXCEPT ![r] =
          [run EXCEPT !.pc = "sync",
                      !.loc = [acc EXCEPT !.msgs = << >>],
                      !.log = @ \o acc.msgs,
                      !.ended = IF run.cfg = <<entries, states>> THEN "stored"
                                ELSE "stored_changed"]]
    /\ out' = PubOut(acc.msgs)
    /\ data' = StoreMaps(data, acc)
    /\ shown' = shown \ {acc.option_specs[i].page_id : i \in 1..Len(acc.option_specs)}
    /\ UNCHANGED <<entries, states, cooldown, panels, publishers, listeners>>

\* preset.title() for the preset modes of the model
PresetTitle(preset) == IF preset = "auto" THEN "Auto" ELSE preset

\* a status text that tells only on from off
fan_label_on_off(s) ==
    IF s.state = "on" THEN "On" ELSE "Off"

\* the status text _sync_entity_state computes for a fan state
fan_label(s) ==
    IF s.state # "on" THEN "Off"
    ELSE IF s.preset_mode # "" THEN PresetTitle(s.preset_mode)
    ELSE IF s.percentage # NoPct
         THEN IF s.percentage <= 0 THEN "Off"
              ELSE IF s.percentage <= 33 THEN "Low"
              ELSE IF s.percentage <= 66 THEN "Med"
              ELSE "High"
    ELSE "On"

\* a sync that writes the fan status text and leaves the toggle values alone
sync_status_text_only(ent, st, ent_toggle_map, d) ==
    LET fs == MapGet(d.fan_status_map, ent, << >>)
    IN  IF DomainOf(ent) = "fan"
        THEN [i \in 1..Len(fs) |->
                 SetAttr(fs[i][1], fs[i][2][1], fs[i][2][2], "text", fan_label(st[ent]))]
        ELSE << >>

\* _sync_entity_state: the toggle values of the entity, and the fan status text
sync_entity_state(ent, st, ent_toggle_map, d) ==
    LET tg == MapGet(ent_toggle_map, ent, << >>)
        val == IF st[ent].state = "on" THEN "1" ELSE "0"
        label == fan_label(st[ent])
        fs == MapGet(d.fan_status_map, ent, << >>)
    IN  [i \in 1..Len(tg) |-> SetAttr(tg[i][1], "b", tg[i][2], "val", val)]
        \o (IF DomainOf(ent) = "fan"
            THEN [i \in 1..Len(fs) |-> SetAttr(fs[i][1], fs[i][2][1], fs[i][2][2], "text", label)]
            ELSE << >>)

RECURSIVE SyncAll(_, _, _, _)
SyncAll(ents, st, ent_toggle_map, d) ==
    IF ents = {} THEN << >>
    ELSE LET e == CHOOSE x \in ents : TRUE
         IN  sync_entity_state(e, st, ent_toggle_map, d)
             \o SyncAll(ents \ {e}, st, ent_toggle_map, d)

\* every displayed entity is synced once, the loop taken as one step; the
\* listeners it subscribes are followed by StoreAndRewire and RewireNext
PublishSync(r) ==
    LET run == runs[r]
    IN
    /\ run.pc = "sync"
    /\ runs' = [runs EXCEPT ![r] = [run EXCEPT !.pc = "idle"]]
    /\ out' = PubOut(SyncAll(DOMAIN run.loc.ent_toggle_map \cup DOMAIN run.loc.ent_matrix_map,
                             states, run.loc.ent_toggle_map, data))
    /\ UNCHANGED <<entries, states, data, cooldown, shown, panels, publishers, listeners>>

----------------------------------------------------------------------------
(* Touch-event router: _state_event *)

Call(domain, service, ent, payload) ==
    [domain |-> domain, service |-> service, entity |-> ent, data |-> payload]

\* what one invocation of the handler did: whether it returned early, the new
\* bookkeeping, the service calls and MQTT messages it queued, whether it raised
Routed(ret, d, cd, sh, calls, msgs, raised) ==
    [ret |-> ret, data |-> d, cooldown |-> cd, shown |-> sh,
     calls |-> calls, msgs |-> msgs, raised |-> raised]

InTargets(targets, tchar, oid) ==
    \E i \in 1..Len(targets) : targets[i] = <<tchar, oid>>

\* publish hidden=1 for every overlay target of page pg
HideMsgs(d, pg) ==
    LET targets == MapGet(d.popup_overlay_targets, pg, << >>)
    IN  [i \in 1..Len(targets) |-> SetAttr(pg, targets[i][1], targets[i][2], "hidden", "1")]

\* popup_overlay_targets[pg] = []; matrix_map.pop("p<pg>m196", None)
ClearOverlay(d, pg) ==
    [d EXCEPT !.popup_overlay_targets = MapSet(@, pg, << >>),
              !.matrix_map = MapPop(@, Topic(pg, "m", 196))]

\* a routing that takes the output number for the relay number
RelayOutputByNumber(t) ==
    IF t = Topic(1, "b", 112) THEN 1
    ELSE IF t = Topic(1, "b", 122) THEN 2
    ELSE IF t = Topic(1, "b", 132) THEN 3 ELSE 0

RelayOutput(t) ==
    IF t = Topic(1, "b", 112) THEN 1
    ELSE IF t = Topic(1, "b", 122) THEN 2
    ELSE IF t = Topic(1, "b", 132) THEN 40 ELSE 0

\* the block under "if event == 'up':"
RouteUp(t, val, d, cd, sh) ==
    IF cd > 0
    THEN \* global cooldown guard
         Routed(TRUE, d, cd, sh, << >>, << >>, FALSE)
    ELSE IF t \in DOMAIN d.option_close_map
    THEN \* _queue_page(return_page); _sync_entity_state is not in scope here
         Routed(TRUE, d, cd, sh, << >>, <<PageCmd(d.option_close_map[t].return_page)>>, TRUE)
    ELSE IF t \in DOMAIN d.option_open_map
    THEN Routed(TRUE, d, cd, sh, << >>, <<PageCmd(d.option_open_map[t].page_id)>>, TRUE)
    ELSE
    LET pnum == t[1]
        targets == MapGet(d.popup_overlay_targets, pnum, << >>)
    IN
    IF targets # << >> /\ ~InTargets(targets, t[2], t[3])
    THEN \* a tap outside the registered overlay closes it and is consumed
         Routed(TRUE, ClearOverlay(d, pnum), PopupCooldown, sh \ {pnum},
                << >>, HideMsgs(d, pnum), FALSE)
    ELSE IF t \in DOMAIN d.popup_map
    THEN LET pm == d.popup_map[t]
             pg == pm.page
         IN  IF pm.type = "close_popup"
             THEN Routed(TRUE, ClearOverlay(d, pg), PopupCooldown, sh \ {pg},
                         << >>, HideMsgs(d, pg), FALSE)
             ELSE \* open a fan_select / light_color popup on the page of the button
                  LET meta == [type |-> pm.type, entity |-> pm.entity]
                      d1 == [d EXCEPT !.popup_overlay_targets = MapSet(@, pnum, OverlayTargets),
                                      !.matrix_map = MapSet(@, Topic(pnum, "m", 196), meta)]
                  IN  Routed(TRUE, d1, cd, sh \cup {pnum}, << >>,
                             HideMsgs(d, pnum)
                             \o << SetAttr(pnum, "l", 195, "text", pm.type),
                                   Jsonl(pnum, "btnmatrix", 196, pm.type, << >>) >>
                             \o [i \in 1..Len(OverlayTargets) |->
                                    SetAttr(pnum, OverlayTargets[i][1], OverlayTargets[i][2],
                                            "hidden", "0")],
                             FALSE)
    ELSE IF RelayOutput(t) # 0
    THEN Routed(FALSE, d, cd, sh, << >>,
                << [cmd |-> "output", page |-> 0, obj |-> "", id |-> RelayOutput(t),
                    text |-> IF val = 1 THEN "on" ELSE "off", args |-> << >>] >>, FALSE)
    ELSE IF t \in DOMAIN d.color_btn_map
    THEN LET cmeta == d.color_btn_map[t]
         IN  Routed(TRUE, d, cd, sh,
                    << Call("light", "turn_on", cmeta.entity, cmeta.payload) >>,
                    << SetAttr(pnum, "b", cmeta.main_btn, "val", "1") >>, FALSE)
    ELSE IF t \in DOMAIN d.ctrl_map
    THEN LET ent == d.ctrl_map[t]
             domain == DomainOf(ent)
             svc == IF val = 1 THEN "turn_on" ELSE "turn_off"
         IN  IF domain \in {"switch", "light", "fan"}
             THEN Routed(FALSE, d, cd, sh, << Call(domain, svc, ent, << >>) >>, << >>, FALSE)
             ELSE Routed(FALSE, d, cd, sh, << >>, << >>, FALSE)
    ELSE Routed(FALSE, d, cd, sh, << >>, << >>, FALSE)

\* the block under "# Matrices (popup selections)"
RouteMatrix(t, val, d) ==
    IF t[2] = "m" /\ t \in DOMAIN d.matrix_map
    THEN LET m == d.matrix_map[t]
             ent == m.entity
         IN  IF m.type = "fan_select"
             THEN LET pct == IF val = 1 THEN 33 ELSE IF val = 2 THEN 66
                             ELSE IF val = 3 THEN 100 ELSE 0
                  IN  [calls |-> IF pct = 0
                                 THEN << Call("fan", "turn_off", ent, << >>) >>
                                 ELSE << Call("fan", "set_percentage", ent, <<"percentage", pct>>) >>,
                       msgs |-> HideMsgs(d, t[1]), hide |-> {t[1]}]
             ELSE IF m.type = "cover_cmd"
             THEN LET svc == IF val = 0 THEN "open_cover"
                             ELSE IF val = 1 THEN "stop_cover" ELSE "close_cover"
                  IN  [calls |-> << Call("cover", svc, ent, << >>) >>, msgs |-> << >>, hide |-> {}]
             ELSE [calls |-> << >>, msgs |-> << >>, hide |-> {}]
    ELSE [calls |-> << >>, msgs |-> << >>, hide |-> {}]

\* one call of _state_event for a widget topic with a JSON payload {event, val}
Route(t, event, val, d, cd, sh) ==
    LET up == IF event = "up" THEN RouteUp(t, val, d, cd, sh)
              ELSE Routed(FALSE, d, cd, sh, << >>, << >>, FALSE)
    IN  IF up.ret \/ up.raised THEN up
        ELSE LET mx == IF event \in {"up", "changed"} THEN RouteMatrix(t, val, up.data)
                       ELSE [calls |-> << >>, msgs |-> << >>, hide |-> {}]
                 long == IF t = Topic(0, "b", 2) /\ event = "long"
                         THEN << Call("dash480", "publish_all", NoEnt, << >>) >>
                         ELSE << >>
             IN  Routed(FALSE, up.data, up.cooldown, up.shown \ mx.hide,
                        up.calls \o mx.calls \o long, up.msgs \o mx.msgs, FALSE)

\* the widgets a touch event may name: those of the stored maps, the tile
\* buttons of the toggle map, the overlay, a home relay, the title
RECURSIVE PairTopics(_, _)
PairTopics(m, ents) ==
    IF ents = {} THEN {}
    ELSE LET e == CHOOSE x \in ents : TRUE
         IN  {Topic(m[e][i][1], "b", m[e][i][2]) : i \in 1..Len(m[e])}
             \cup PairTopics(m, ents \ {e})

TouchTopics(d) ==
    DOMAIN d.ctrl_map \cup DOMAIN d.option_open_map \cup DOMAIN d.option_close_map
    \cup DOMAIN d.matrix_map \cup DOMAIN d.popup_map
    \cup {t \in DOMAIN d.color_btn_map : t[3] \in {80, 84}}
    \cup PairTopics(d.ent_toggle_map, DOMAIN d.ent_toggle_map)
    \cup {Topic(1, "b", 112), Topic(0, "b", 2)}

\* <<event, val>> of the payload; -1 is what the handler takes when it has no val
TouchInputs == {<<"up", 0>>, <<"up", 1>>, <<"changed", 2>>, <<"long", -1>>}

StateEvent(t, event, val) ==
    LET r == Route(t, event, val, data, cooldown, shown)
    IN  /\ data' = r.data
        /\ cooldown' = r.cooldown
        /\ shown' = r.shown
        /\ out' = [src |-> "state_event", calls |-> r.calls, msgs |-> r.msgs,
                   raised |-> r.raised]
        /\ UNCHANGED <<entries, states, runs, panels, publishers, listeners>>

\* time passes
Tick ==
    /\ cooldown > 0
    /\ cooldown' = cooldown - 1
    /\ out' = NoOut
    /\ UNCHANGED <<entries, states, data, runs, shown, panels, publishers, listeners>>

\* the page entries the host removes in the model
Removable == {"e2"}

\* the host removes a page entry
RemoveEntry(e) ==
    /\ entries[e].present
    /\ entries' = [entries EXCEPT ![e].present = FALSE]
    /\ out' = NoOut
    /\ UNCHANGED <<states, data, runs, cooldown, shown, panels, publishers, listeners>>

Next ==
    \/ \E r \in RunIds : PublishAllStart(r)
    \/ \E r \in RunIds : PublishPage(r)
    \/ \E r \in RunIds : PublishOptionPages(r)
    \/ \E r \in RunIds : PublishSync(r)
    \/ \E t \in TouchTopics(data), i \in TouchInputs : StateEvent(t, i[1], i[2])
    \/ Tick
    \/ \E e \in Removable : RemoveEntry(e)

Spec == Init /\ [][Next]_vars

----------------------------------------------------------------------------
(* Slot operations of a page entry: button.py, select.py, text.py, the flows *)

ALLOWED_DOMAINS == {"switch", "light", "fan", "sensor"}

\* twelve further sensors, enough to fill a page
FillerNames == <<"x01", "x02", "x03", "x04", "x05", "x06",
                 "x07", "x08", "x09", "x10", "x11", "x12">>
FullTiles == [i \in 1..NumSlots |-> <<"sensor", FillerNames[i]>>]

\* the entities the operator picks from, and the slots written one by one
SlotInputs == {SwitchA, FanF}
TextSlots == 1..MaxTextSlot
\* the page entry the slot operations act on
SlotEntries == {"e1"}

SlotOut(src, calls) == [src |-> src, calls |-> calls, msgs |-> << >>, raised |-> FALSE]

\* hass.services.async_call(DOMAIN, "publish_all", {"entry_id": panel_id}, blocking=False)
PublishAllCall == Call("dash480", "publish_all", NoEnt, <<"entry_id", "panel">>)

\* "for i in range(1, 13): if not opts.get(f's{i}'): slot = i; break", 0 for None
FirstEmpty(s) ==
    IF \E i \in 1..NumSlots : s[i] = NoEnt
    THEN CHOOSE i \in 1..NumSlots : s[i] = NoEnt /\ \A j \in 1..(i - 1) : s[j] # NoEnt
    ELSE 0

\* "for i in range(12, 0, -1): if opts.get(f's{i}'): slot = i; break", 0 for None
LastFilled(s) ==
    IF \E i \in 1..NumSlots : s[i] # NoEnt
    THEN CHOOSE i \in 1..NumSlots : s[i] # NoEnt /\ \A j \in (i + 1)..NumSlots : s[j] = NoEnt
    ELSE 0

Assigned(s) == {s[i] : i \in 1..NumSlots} \ {NoEnt}

\* the Add Entity button without its "entity already present" test
AddEntityButtonUnchecked(e) ==
    LET opts == entries[e]
        ent == opts.pending_entity
        slot == FirstEmpty(opts.s)
    IN
    /\ opts.present
    /\ IF ent = NoEnt \/ slot = 0
       THEN /\ entries' = entries
            /\ out' = SlotOut("add_button", << >>)
       ELSE /\ entries' = [entries EXCEPT ![e].s[slot] = ent, ![e].pending_entity = NoEnt]
            /\ out' = SlotOut("add_button", <<PublishAllCall>>)
    /\ UNCHANGED <<states, data, runs, cooldown, shown, panels, publishers, listeners>>

\* Dash480AddEntityButton.async_press
AddEntityButtonPress(e) ==
    LET opts == entries[e]
        ent == opts.pending_entity
        slot == FirstEmpty(opts.s)
    IN
    /\ opts.present
    /\ IF ent = NoEnt \/ slot = 0 \/ ent \in Assigned(opts.s)
       THEN /\ entries' = entries
            /\ out' = SlotOut("add_button", << >>)
       ELSE /\ entries' = [entries EXCEPT ![e].s[slot] = ent, ![e].pending_entity = NoEnt]
            /\ out' = SlotOut("add_button", <<PublishAllCall>>)
    /\ UNCHANGED <<states, data, runs, cooldown, shown, panels, publishers, listeners>>

\* an Add Entity select that only ever stores the selection as pending
AddEntitySelectPendingOnly(e, ent) ==
    /\ entries[e].present
    /\ DomainOf(ent) \in ALLOWED_DOMAINS
    /\ ent \notin Assigned(entries[e].s)
    /\ entries' = [entries EXCEPT ![e].pending_entity = ent]
    /\ out' = SlotOut("add_select", << >>)
    /\ UNCHANGED <<states, data, runs, cooldown, shown, panels, publishers, listeners>>

\* Dash480AddEntitySelect.async_select_option; the host accepts an option only
\* from the select's options, the allowed entities not yet on the page
AddEntitySelect(e, ent) ==
    LET opts == entries[e]
        slot == FirstEmpty(opts.s)
    IN
    /\ opts.present
    /\ DomainOf(ent) \in ALLOWED_DOMAINS
    /\ ent \notin Assigned(opts.s)
    /\ IF slot = 0
       THEN /\ entries' = [entries EXCEPT ![e].pending_entity = ent]
            /\ out' = SlotOut("add_select", << >>)
       ELSE /\ entries' = [entries EXCEPT ![e].s[slot] = ent, ![e].pending_entity = NoEnt]
            /\ out' = SlotOut("add_select", <<PublishAllCall>>)
    /\ UNCHANGED <<states, data, runs, cooldown, shown, panels, publishers, listeners>>

\* a Remove Entity button that ignores pending_remove_slot
RemoveEntityButtonLastOnly(e) ==
    LET opts == entries[e]
        slot == LastFilled(opts.s)
    IN
    /\ opts.present
    /\ IF slot = 0
       THEN /\ entries' = entries
            /\ out' = SlotOut("remove_button", << >>)
       ELSE /\ entries' = [entries EXCEPT ![e].s[slot] = NoEnt, ![e].pending_remove_slot = 0]
            /\ out' = SlotOut("remove_button", <<PublishAllCall>>)
    /\ UNCHANGED <<states, data, runs, cooldown, shown, panels, publishers, listeners>>

\* Dash480RemoveEntityButton.async_press
RemoveEntityButtonPress(e) ==
    LET opts == entries[e]
        sel == opts.pending_remove_slot
        slot == IF sel >= 1 /\ sel <= NumSlots THEN sel ELSE LastFilled(opts.s)
    IN
    /\ opts.present
    /\ IF slot = 0
       THEN /\ entries' = entries
            /\ out' = SlotOut("remove_button", << >>)
       ELSE /\ entries' = [entries EXCEPT ![e].s[slot] = NoEnt, ![e].pending_remove_slot = 0]
            /\ out' = SlotOut("remove_button", <<PublishAllCall>>)
    /\ UNCHANGED <<states, data, runs, cooldown, shown, panels, publishers, listeners>>

\* Dash480RemoveSlotSelect.async_select_option; the options are the filled slots
RemoveSlotSelect(e, slot) ==
    /\ entries[e].present
    /\ entries[e].s[slot] # NoEnt
    /\ entries' = [entries EXCEPT ![e].s[slot] = NoEnt, ![e].pending_remove_slot = 0]
    /\ out' = SlotOut("remove_select", <<PublishAllCall>>)
    /\ UNCHANGED <<states, data, runs, cooldown, shown, panels, publishers, listeners>>

\* Dash480SlotEntityText.async_set_value
SlotEntityTextSetValue(e, slot, value) ==
    /\ entries[e].present
    /\ entries' = [entries EXCEPT ![e].s[slot] = value]
    /\ out' = SlotOut("set_value", << >>)
    /\ UNCHANGED <<states, data, runs, cooldown, shown, panels, publishers, listeners>>

\* Dash480ConfigFlow.async_step_page: a new page entry with the slots of the form
ConfigFlowPage(e, order, v1, v2) ==
    /\ ~entries[e].present
    /\ entries' = [entries EXCEPT ![e] = PageEntry(order, <<v1, v2>>, None)]
    /\ out' = SlotOut("config_flow", << >>)
    /\ UNCHANGED <<states, data, runs, cooldown, shown, panels, publishers, listeners>>

\* Dash480OptionsFlowHandler.async_step_init: the options become the form's input
OptionsFlowInit(e, v1, v2) ==
    /\ entries[e].present
    /\ entries' = [entries EXCEPT ![e] = [PageEntry(entries[e].page_order, <<v1, v2>>, None)
                                              EXCEPT !.title = entries[e].title]]
    /\ out' = SlotOut("options_flow", << >>)
    /\ UNCHANGED <<states, data, runs, cooldown, shown, panels, publishers, listeners>>

InitSlotEntries ==
    { [e \in EntryIds |-> IF e = "e1" THEN a ELSE AbsentEntry] :
        a \in {AbsentEntry, PageEntry(2, << >>, None), PageEntry(2, FullTiles, None)} }

InitSlots ==
    /\ entries \in InitSlotEntries
    /\ states = InitStates
    /\ data = InitData
    /\ runs = [r \in RunIds |-> IdleRun]
    /\ cooldown = 0
    /\ shown = {}
    /\ out = NoOut
    /\ panels = InitPanels
    /\ publishers = {ThisPanel}
    /\ listeners = {}

NextSlots ==
    \/ \E e \in SlotEntries : AddEntityButtonPress(e)
    \/ \E e \in SlotEntries, ent \in SlotInputs : AddEntitySelect(e, ent)
    \/ \E e \in SlotEntries : RemoveEntityButtonPress(e)
    \/ \E e \in SlotEntries, slot \in TextSlots : RemoveSlotSelect(e, slot)
    \/ \E e \in SlotEntries, slot \in TextSlots, v \in SlotInputs \cup {NoEnt} :
          SlotEntityTextSetValue(e, slot, v)
    \/ \E e \in SlotEntries, order \in PageOrders, v1 \in SlotInputs \cup {NoEnt},
          v2 \in SlotInputs \cup {NoEnt} : ConfigFlowPage(e, order, v1, v2)
    \/ \E e \in SlotEntries, v1 \in SlotInputs \cup {NoEnt}, v2 \in SlotInputs \cup {NoEnt} :
          OptionsFlowInit(e, v1, v2)

SpecSlots == InitSlots /\ [][NextSlots]_vars

----------------------------------------------------------------------------
(* The Remove Entity button as a function of the stored page options *)

\* stored values of the option pending_remove_slot: None (0), slots in range,
\* and an integer out of range
RemoveChoices == (0..MaxIndex) \cup {NumSlots, NumSlots + 1}

\* stored slot contents: no slot filled, slots filled with gaps, all slots filled
RemoveFillings == {<< >>, <<SwitchA, NoEnt, LightC, FanF>>, FullTiles}

InitRemoveEntries ==
    { [e \in EntryIds |->
          IF e = "e1"
          THEN [PageEntry(2, f, None) EXCEPT !.pending_remove_slot = k]
          ELSE AbsentEntry] :
        f \in RemoveFillings, k \in RemoveChoices }

InitRemove ==
    /\ entries \in InitRemoveEntries
    /\ states = InitStates
    /\ data = InitData
    /\ runs = [r \in RunIds |-> IdleRun]
    /\ cooldown = 0
    /\ shown = {}
    /\ out = NoOut
    /\ panels = InitPanels
    /\ publishers = {ThisPanel}
    /\ listeners = {}

NextRemove ==
    \/ \E e \in SlotEntries : RemoveEntityButtonPress(e)
    \/ \E e \in SlotEntries, slot \in TextSlots : RemoveSlotSelect(e, slot)
    \/ \E e \in SlotEntries, ent \in SlotInputs : AddEntitySelect(e, ent)

SpecRemove == InitRemove /\ [][NextRemove]_vars

----------------------------------------------------------------------------
(* Page layouts: one page entry under every layout the Layout select offers *)

\* LAYOUT_OPTIONS: the layouts the Layout select writes into the entry options
LAYOUT_OPTIONS == {"grid_3x3", "clock_top"}

\* the layout option of a page entry: unset, or an option of the Layout select
LayoutChoices == {None} \cup LAYOUT_OPTIONS

Filler(i) == <<"sensor", FillerNames[i]>>

\* the slot fillings of the page entry: few and many entities, a gap, covers
\* first, last and among more than six others
LayoutFillings ==
    { <<SwitchA, LightP>>,
      <<SwitchA, NoEnt, FanF, SensorT>>,
      <<SwitchA, FanF, CoverS>>,
      <<CoverS, SwitchA>>,
      <<SwitchA, LightP, LightC, FanF, SensorT, Filler(1), Filler(2)>>,
      <<SwitchA, LightP, NoEnt, FanF, SensorT, Filler(1), Filler(2), Filler(3),
        Filler(4), Filler(5), Filler(6), LightC>>,
      <<SwitchA, LightP, LightC, CoverS, FanF, SensorT, Filler(1), Filler(2)>>,
      <<SensorT, CoverS>> }

LayoutEntities == Entities \cup {Filler(i) : i \in 1..6}

\* hass.states for the entities of the layout pages
LayoutStates ==
    [e \in LayoutEntities |->
        [state |-> IF DomainOf(e) = "sensor" THEN "21" ELSE "off",
         friendly_name |-> EntityIdText(e),
         percentage |-> NoPct, preset_mode |-> "",
         modes |-> IF e = LightC THEN <<"color_temp", "hs">>
                   ELSE IF e = LightP THEN <<"brightness">> ELSE << >>]]

InitLayout ==
    /\ entries \in { [e \in EntryIds |-> IF e = "e1" THEN PageEntry(2, f, l) ELSE AbsentEntry] :
                        f \in LayoutFillings, l \in LayoutChoices }
    /\ states = LayoutStates
    /\ data = InitData
    /\ runs = [r \in RunIds |-> IdleRun]
    /\ cooldown = 0
    /\ shown = {}
    /\ out = NoOut
    /\ panels = InitPanels
    /\ publishers = {ThisPanel}
    /\ listeners = {}

NextLayout ==
    \/ \E r \in RunIds : PublishAllStart(r)
    \/ \E r \in RunIds : PublishPage(r)
    \/ \E r \in RunIds : PublishOptionPages(r)
    \/ \E r \in RunIds : PublishSync(r)

SpecLayout == InitLayout /\ [][NextLayout]_vars

----------------------------------------------------------------------------
(* Matrix, colour chip and Power events after one publish_all *)

\* val of a payload: a button index, or -1, which the handler takes for a
\* payload without val
MatrixVals == -1..MaxIndex

WideInputs == {<<ev, v>> : ev \in {"up", "changed"}, v \in MatrixVals}

\* the widgets these events name: matrices, colour chips, controls, popup closers
WideTopics(d) ==
    DOMAIN d.matrix_map \cup DOMAIN d.color_btn_map \cup DOMAIN d.ctrl_map
    \cup DOMAIN d.popup_map

\* the page entries of Init, and a single page 50 with a colour light
InitTouchEntries ==
    InitEntries \cup
    { [e \in EntryIds |-> IF e = "e1" THEN PageEntry(FirstOptionPage, TilesB, None)
                          ELSE AbsentEntry] }

InitTouch ==
    /\ entries \in InitTouchEntries
    /\ states = InitStates
    /\ data = InitData
    /\ runs = [r \in RunIds |-> IdleRun]
    /\ cooldown = 0
    /\ shown = {}
    /\ out = NoOut
    /\ panels = InitPanels
    /\ publishers = {ThisPanel}
    /\ listeners = {}

\* the one publish_all call of this specification
TouchRuns == {1}

NextTouch ==
    \/ \E r \in TouchRuns : PublishAllStart(r)
    \/ \E r \in TouchRuns : PublishPage(r)
    \/ \E r \in TouchRuns : PublishOptionPages(r)
    \/ \E r \in TouchRuns : PublishSync(r)
    \/ \E t \in WideTopics(data), i \in WideInputs : StateEvent(t, i[1], i[2])
    \/ Tick

SpecTouch == InitTouch /\ [][NextTouch]_vars

----------------------------------------------------------------------------
(* Page change reports: the "page" topic of _state_event *)

DigitChars == <<"0", "1", "2", "3", "4", "5", "6", "7", "8", "9">>

\* str.isdigit() of a payload given as its sequence of characters
is_digit(chars) ==
    /\ Len(chars) > 0
    /\ \A i \in 1..Len(chars) : \E d \in 1..10 : DigitChars[d] = chars[i]

DigitValue(c) == (CHOOSE d \in 1..10 : DigitChars[d] = c) - 1

\* int() of a payload of decimal digits
RECURSIVE int_of(_)
int_of(chars) ==
    IF chars = << >> THEN 0
    ELSE 10 * int_of(SubSeq(chars, 1, Len(chars) - 1)) + DigitValue(chars[Len(chars)])

\* the payloads the panel reports on the page topic in the model
PagePayloads ==
    { <<"1">>, <<"2">>, <<"0", "2">>, <<"3">>, <<"5", "0">>, <<"5", "1">>,
      <<"-", "1">>, <<"x">>, << >> }

\* the titles an operator gives a page
PageTitles == {"", "Den"}

\* next(e for e in all_entries if role == "page" and page_order == p), None as ""
PageEntryOf(ents, p) ==
    LET hits == SelectSeq(EntryOrder, LAMBDA e : ents[e].present /\ ents[e].page_order = p)
    IN  IF hits = << >> THEN "" ELSE Head(hits)

\* a header title that ignores the option pages
PageTitleNoOptions(p, d, ents) ==
    LET page_entry == PageEntryOf(ents, p)
    IN  IF p = 1 THEN panels[ThisPanel].home_title
        ELSE IF page_entry # "" THEN ents[page_entry].title
        ELSE PageText(p)

\* the header title of page p
PageTitle(p, d, ents) ==
    LET option_title == MapGet(d.option_page_titles, p, "")
        page_entry == PageEntryOf(ents, p)
    IN  IF option_title # "" THEN option_title
        ELSE IF p = 1 THEN panels[ThisPanel].home_title
        ELSE IF page_entry # "" THEN ents[page_entry].title
        ELSE PageText(p)

\* _state_event for the topic "page" with a payload that is not a JSON object
PageEvent(payload) ==
    IF is_digit(payload)
    THEN LET p == int_of(payload)
         IN  /\ data' = [data EXCEPT !.current_page = p]
             /\ out' = [src |-> "page_event", calls |-> << >>,
                        msgs |-> <<SetAttr(0, "b", 2, "text", PageTitle(p, data, entries))>>
                                 \o HideMsgs(data, p),
                        raised |-> FALSE]
             /\ UNCHANGED <<entries, states, runs, cooldown, shown, panels, publishers, listeners>>
    ELSE /\ out' = [src |-> "page_event", calls |-> << >>, msgs |-> << >>,
                    raised |-> FALSE]
         /\ UNCHANGED <<entries, states, data, runs, cooldown, shown, panels, publishers, listeners>>

\* Dash480PageTitleText.async_set_value
PageTitleTextSetValue(e, value) ==
    /\ entries[e].present
    /\ entries' = [entries EXCEPT ![e].title = value]
    /\ out' = SlotOut("title_text", <<PublishAllCall>>)
    /\ UNCHANGED <<states, data, runs, cooldown, shown, panels, publishers, listeners>>

InitPage ==
    /\ entries \in InitEntries
    /\ states = InitStates
    /\ data = InitData
    /\ runs = [r \in RunIds |-> IdleRun]
    /\ cooldown = 0
    /\ shown = {}
    /\ out = NoOut
    /\ panels = InitPanels
    /\ publishers = {ThisPanel}
    /\ listeners = {}

NextPage ==
    \/ \E r \in TouchRuns : PublishAllStart(r)
    \/ \E r \in TouchRuns : PublishPage(r)
    \/ \E r \in TouchRuns : PublishOptionPages(r)
    \/ \E r \in TouchRuns : PublishSync(r)
    \/ \E payload \in PagePayloads : PageEvent(payload)
    \/ \E e \in Removable, value \in PageTitles : PageTitleTextSetValue(e, value)
    \/ \E e \in Removable : RemoveEntry(e)

SpecPage == InitPage /\ [][NextPage]_vars

----------------------------------------------------------------------------
\* the matrix topics of the router's map with the given meta type
MatricesOf(d, type) == {t \in DOMAIN d.matrix_map : d.matrix_map[t].type = type}

----------------------------------------------------------------------------
(* Fan speed: the speed matrix of the option page and the status labels *)

\* the fan states the host reports: off, or on with or without a percentage
\* and a preset mode
FanStates ==
    { [state |-> "off", percentage |-> 0, preset_mode |-> ""] }
    \cup { [state |-> "on", percentage |-> pct, preset_mode |-> pm] :
             pct \in {NoPct, 0, 33, 50, 66, 100}, pm \in {"", "auto"} }

\* the listener _cb that publish_all subscribed for entity ent: the host has
\* written the new state fs of a fan, and _sync_entity_state publishes it
StateChanged(ent, fs) ==
    /\ \A r \in RunIds : runs[r].pc = "idle"
    /\ ent \in DOMAIN data.ent_toggle_map \cup DOMAIN data.ent_matrix_map
    /\ DomainOf(ent) = "fan"
    /\ states' = [states EXCEPT ![ent] = [@ EXCEPT !.state = fs.state,
                                                   !.percentage = fs.percentage,
                                                   !.preset_mode = fs.preset_mode]]
    /\ out' = [src |-> "state_changed", calls |-> << >>,
               msgs |-> sync_entity_state(ent, states', data.ent_toggle_map, data),
               raised |-> FALSE]
    /\ UNCHANGED <<entries, data, runs, cooldown, shown, panels, publishers, listeners>>

NextFan ==
    \/ \E r \in TouchRuns : PublishAllStart(r)
    \/ \E r \in TouchRuns : PublishPage(r)
    \/ \E r \in TouchRuns : PublishOptionPages(r)
    \/ \E r \in TouchRuns : PublishSync(r)
    \/ \E t \in MatricesOf(data, "fan_select"), i \in WideInputs : StateEvent(t, i[1], i[2])
    \/ \E ent \in Entities, fs \in FanStates : StateChanged(ent, fs)
    \/ Tick

SpecFan == Init /\ [][NextFan]_vars

----------------------------------------------------------------------------
(* Entity states: the initial sync of publish_all and the state listeners *)

\* the entities whose state the host changes in the model
SyncEntities == {SwitchA, LightC, FanF}

\* hass.states with any of these entities on
InitSyncStates ==
    { [e \in Entities |-> [InitStates[e] EXCEPT !.state = IF e \in on THEN "on" ELSE @]] :
        on \in SUBSET SyncEntities }

InitSync ==
    /\ entries \in InitEntries
    /\ states \in InitSyncStates
    /\ data = InitData
    /\ runs = [r \in RunIds |-> IdleRun]
    /\ cooldown = 0
    /\ shown = {}
    /\ out = NoOut
    /\ panels = InitPanels
    /\ publishers = {ThisPanel}
    /\ listeners = {}

\* the runs whose listener _cb is subscribed for entity ent
ListenersOf(ent) ==
    {r \in TouchRuns :
        /\ runs[r].ended # "never" /\ runs[r].pc = "idle"
        /\ ent \in DOMAIN runs[r].loc.ent_toggle_map \cup DOMAIN runs[r].loc.ent_matrix_map}

\* the host changes the state of ent to s; a subscribed listener _cb runs
\* _sync_entity_state with the toggle map of its publish_all call
EntityStateChanged(ent, s) ==
    /\ states[ent].state # s
    /\ states' = [states EXCEPT ![ent].state = s]
    /\ out' = [src |-> "state_changed", calls |-> << >>,
               msgs |-> IF ListenersOf(ent) = {} THEN << >>
                        ELSE LET r == CHOOSE x \in ListenersOf(ent) : TRUE
                             IN  sync_entity_state(ent, states', runs[r].loc.ent_toggle_map, data),
               raised |-> FALSE]
    /\ UNCHANGED <<entries, data, runs, cooldown, shown, panels, publishers, listeners>>

NextSync ==
    \/ \E r \in TouchRuns : PublishAllStart(r)
    \/ \E r \in TouchRuns : PublishPage(r)
    \/ \E r \in TouchRuns : PublishOptionPages(r)
    \/ \E r \in TouchRuns : PublishSync(r)
    \/ \E ent \in SyncEntities, s \in {"on", "off"} : EntityStateChanged(ent, s)

SpecSync == InitSync /\ [][NextSync]_vars

----------------------------------------------------------------------------
(* Device availability: push_layout on hasp/<node>/LWT *)

\* payloads of the LWT topic
LwtPayloads == {"online", "offline"}

\* if msg.payload == "online": hass.async_create_task(_publish_all())
push_layout(payload) ==
    IF payload = "online"
    THEN \E r \in RunIds : PublishAllStart(r)
    ELSE /\ out' = [NoOut EXCEPT !.src = "push_layout"]
         /\ UNCHANGED <<entries, states, data, runs, cooldown, shown, panels, publishers, listeners>>

NextLwt ==
    \/ \E payload \in LwtPayloads : push_layout(payload)
    \/ \E r \in RunIds : PublishPage(r)
    \/ \E r \in RunIds : PublishOptionPages(r)
    \/ \E r \in RunIds : PublishSync(r)
    \/ \E e \in Removable : RemoveEntry(e)

SpecLwt == Init /\ [][NextLwt]_vars

----------------------------------------------------------------------------
(* Layout dump: svc_dump_layout *)

\* cell_xy of svc_dump_layout: base_y = 120, row_step = 120 + 20
dump_cell_xy(row, col) == <<24 + col * (128 + 24), 120 + row * (120 + 20)>>

\* lines, option specs and counters of one svc_dump_layout call
EmptyDump ==
    [lines |-> << >>, option_specs |-> << >>,
     next_option_page |-> FirstOptionPage, render_index |-> 1]

DumpLine(acc, ms) == [acc EXCEPT !.lines = @ \o ms]

\* "option_specs.append({...})" of svc_dump_layout, after the hint label
DumpOption(p, ent, type, label, hint, base, x, y, w, h, acc) ==
    LET a1 == DumpLine(acc, << Jsonl(p, "label", base + 3, hint, <<x + 8, y + h - 36, w - 16, 28>>) >>)
    IN  [a1 EXCEPT !.option_specs =
                       Append(@, [entity |-> ent, type |-> type, origin_page |-> p,
                                  page_id |-> acc.next_option_page, friendly_name |-> label,
                                  trigger_topic |-> Topic(p, "b", base + 2)]),
                   !.next_option_page = @ + 1]

\* one iteration of "for spec, slot in assignments" of svc_dump_layout
DumpTile(p, spec, slot, st, acc) ==
    IF slot = NoEnt THEN acc
    ELSE
    LET xy == dump_cell_xy(spec.row, spec.col)
        wh == cell_wh(spec.rs, spec.cs)
        x == xy[1]  y == xy[2]  w == wh[1]  h == wh[2]
    IN
    IF spec.special = "clock"
    THEN DumpLine(acc, << Jsonl(p, "label", 70, "00:00", <<x, y + 4, w, h - 8>>) >>)
    ELSE
    LET ent == slot[2]
        base == Min(acc.render_index, 9) * 10
        a0 == [acc EXCEPT !.render_index = @ + 1]
        label == st[ent].friendly_name
        domain == DomainOf(ent)
    IN
    IF spec.special = "shades"
    THEN LET full_x == dump_cell_xy(spec.row, 0)[1]
             full_w == cell_wh(1, 3)[1]
             full_y == y + (h - 88) \div 2
         IN  DumpLine(a0, << Jsonl(p, "obj", base + 5, "", <<full_x, full_y, full_w, 88>>),
                             Jsonl(p, "label", base + 6, label,
                                   <<full_x + 18, full_y + 12, full_w - 36, 24>>),
                             Jsonl(p, "btnmatrix", base + 7, "Up,Pause,Down",
                                   <<full_x + 30, full_y + 42, full_w - 60, 56>>) >>)
    ELSE
    LET a1 == DumpLine(a0, << Jsonl(p, "obj", base + 1, "", <<x, y, w, h>>),
                              Jsonl(p, "label", base, label, <<x + 8, y + 6, w - 16, 24>>) >>)
    IN
    IF domain \in {"switch", "light", "fan"}
    THEN LET icon == IF domain = "fan" THEN "E4DC" ELSE "E425"
             a2 == DumpLine(a1, << Jsonl(p, "btn", base + 2, icon,
                                         <<x + Max(20, (w - 96) \div 2), y + 36, 96, 72>>) >>)
         IN  IF domain = "fan"
             THEN DumpOption(p, ent, "fan", label, "Tap for speed", base, x, y, w, h, a2)
             ELSE IF domain = "light" /\ has_color(st[ent].modes)
             THEN DumpOption(p, ent, "light_color", label, "Tap for color", base, x, y, w, h, a2)
             ELSE a2
    ELSE DumpLine(a1, << Jsonl(p, "btn", base + 2, StateVal(st, ent),
                               <<x + Max(20, (w - 88) \div 2), y + 40, 88, 64>>) >>)

RECURSIVE DumpTiles(_, _, _, _, _)
DumpTiles(p, asg, i, st, acc) ==
    IF i > Len(asg) THEN acc
    ELSE DumpTiles(p, asg, i + 1, st, DumpTile(p, asg[i][1], asg[i][2], st, acc))

\* "for pe in page_entries" of svc_dump_layout
RECURSIVE DumpPages(_, _, _, _, _)
DumpPages(ids, i, ents, st, acc) ==
    IF i > Len(ids) THEN acc
    ELSE LET pe == ents[ids[i]]
             p == pe.page_order
             ring == pages_ring(ents)
             a1 == DumpLine([acc EXCEPT !.render_index = 1],
                            << Jsonl(p, "page", 0, "", <<PrevOf(ring, p), NextOf(ring, p)>>),
                               Jsonl(p, "obj", 80, "", <<0, 0, 480, 480>>) >>)
         IN  DumpPages(ids, i + 1, ents, st, DumpTiles(p, Assignments(pe), 1, st, a1))

\* _emit_option_pages of svc_dump_layout
RECURSIVE DumpOptionPages(_, _)
DumpOptionPages(i, acc) ==
    IF i > Len(acc.option_specs) THEN acc
    ELSE LET spec == acc.option_specs[i]
             page_id == spec.page_id
             origin == spec.origin_page
             a1 == DumpLine(acc,
                      << Jsonl(page_id, "page", 0, "", <<origin, origin>>),
                         Jsonl(page_id, "obj", 10, "", <<0, 0, 480, 480>>),
                         Jsonl(page_id, "label", 11, spec.friendly_name, <<24, 24, 432, 48>>),
                         Jsonl(page_id, "btn", 190, "Close", <<360, 24, 96, 48>>) >>)
             a2 == IF spec.type = "fan"
                   THEN DumpLine(a1,
                           << Jsonl(page_id, "label", 40, "--", <<24, 96, 432, 36>>),
                              Jsonl(page_id, "btnmatrix", 60, JoinComma(FanSpeedOptions),
                                    <<72, 168, 336, 144>>) >>)
                   ELSE IF spec.type = "light_color"
                   THEN DumpLine(a1,
                           << Jsonl(page_id, "btn", 40, "Power", <<168, 108, 144, 72>>) >>
                           \o [k \in 1..Len(ColorChips) |->
                                  Jsonl(page_id, "btn", 80 + (k - 1), ColorChips[k][3],
                                        <<72 + ((k - 1) % 3) * (96 + 24),
                                          216 + ((k - 1) \div 3) * (96 + 40), 96, 96>>)])
                   ELSE a1
         IN  DumpOptionPages(i + 1, a2)

\* the lines svc_dump_layout writes for a panel with the given home title and
\* temperature text, and the option specs it builds on the way
dump_layout_with(title, tval, ents, st) ==
    LET nums == page_numbers(ents)
        home == home_layout_lines(title, tval)
        a0 == DumpLine(EmptyDump,
                       IF nums = << >> THEN home
                       ELSE home \o << Jsonl(1, "page", 0, "", <<nums[Len(nums)], nums[1]>>) >>)
    IN  DumpOptionPages(1, DumpPages(page_entries(ents), 1, ents, st, a0))

\* the dump of the panel the model follows, under the options it is set up with
dump_layout(ents, st) == dump_layout_with(HomeTitle, "--", ents, st)

\* the dump_layout service is called
DumpLayout ==
    /\ out' = [src |-> "dump_layout", calls |-> << >>,
               msgs |-> dump_layout(entries, states).lines, raised |-> FALSE]
    /\ UNCHANGED <<entries, states, data, runs, cooldown, shown, panels, publishers, listeners>>

NextDump ==
    \/ \E r \in TouchRuns : PublishAllStart(r)
    \/ \E r \in TouchRuns : PublishPage(r)
    \/ \E r \in TouchRuns : PublishOptionPages(r)
    \/ \E r \in TouchRuns : PublishSync(r)
    \/ DumpLayout

SpecDump == InitLayout /\ [][NextDump]_vars

----------------------------------------------------------------------------
(* Component services: async_setup, routed by _pick_entry_id *)

\* call.data.get("entry_id"): absent, a panel entry, an id no entry has
ServiceEntryIds == {None} \cup PanelIds \cup {"gone"}

\* call.data["home_title"] and call.data["temp_entity"]
ServiceTitles == {"", "Den"}
ServiceTemps == {NoEnt, SensorT}

\* a routing that takes the first registered panel when several are registered
pick_first_entry_id(eid, pubs) ==
    IF eid # None THEN eid
    ELSE IF ThisPanel \in pubs THEN ThisPanel
    ELSE IF pubs # {} THEN CHOOSE p \in pubs : TRUE
    ELSE None

\* _pick_entry_id: the given id, else the only registered panel, else None
pick_entry_id(eid, pubs) ==
    IF eid # None THEN eid
    ELSE IF Cardinality(pubs) = 1 THEN CHOOSE p \in pubs : TRUE
    ELSE None

\* what a service call did: the entry_id it was called with, the entry it acted
\* on, the publisher it awaited, the MQTT messages or dump lines, the warning
ServiceOut(svc, eid, target, calls, msgs, warned) ==
    [src |-> svc, entry_id |-> eid, target |-> target, calls |-> calls,
     msgs |-> msgs, raised |-> FALSE, warned |-> warned]

\* "_LOGGER.warning(...); return"
ServiceIgnored(svc, eid) ==
    /\ out' = ServiceOut(svc, eid, None, << >>, << >>, TRUE)
    /\ UNCHANGED <<entries, states, data, runs, cooldown, shown, panels, publishers, listeners>>

\* await pub[fn]() of a panel whose store is not followed here
Invoke(target, fn) == Call("publishers", fn, NoEnt, <<target>>)

\* the page entries linked to a panel: those of the model belong to ThisPanel
EntriesOfPanel(target, ents) ==
    IF target = ThisPanel THEN ents ELSE [e \in EntryIds |-> AbsentEntry]

\* _options_updated, called by the host when the options of a panel that is set
\* up have changed
options_updated(target, old, new, st) ==
    IF target \notin publishers \/ new = old THEN << >>
    ELSE (IF new.temp_entity # old.temp_entity
          THEN <<SetAttr(0, "b", 3, "text", temp_value(new, st))>> ELSE << >>)
         \o <<SetAttr(0, "b", 2, "text", new.home_title)>>

svc_publish_all(eid) ==
    LET picked == pick_entry_id(eid, publishers)
    IN  IF picked = None \/ picked \notin publishers
        THEN ServiceIgnored("svc_publish_all", eid)
        ELSE IF picked = ThisPanel
             THEN \E r \in TouchRuns : PublishAllStart(r)
             ELSE /\ out' = ServiceOut("svc_publish_all", eid, picked,
                                       <<Invoke(picked, "publish_all")>>, << >>, FALSE)
                  /\ UNCHANGED <<entries, states, data, runs, cooldown, shown,
                                 panels, publishers, listeners>>

\* pub["publish_home"] is _push_home_layout
svc_publish_home(eid) ==
    LET picked == pick_entry_id(eid, publishers)
    IN  IF picked = None \/ picked \notin publishers
        THEN ServiceIgnored("svc_publish_home", eid)
        ELSE /\ out' = ServiceOut("svc_publish_home", eid, picked, << >>,
                           <<ClearAll>> \o home_layout_lines(panels[picked].home_title,
                                               temp_value(panels[picked], states)),
                           FALSE)
             /\ UNCHANGED <<entries, states, data, runs, cooldown, shown,
                            panels, publishers, listeners>>

svc_set_home_title(eid, title) ==
    LET picked == pick_entry_id(eid, publishers)
    IN  IF picked = None \/ picked \notin PanelIds
        THEN ServiceIgnored("svc_set_home_title", eid)
        ELSE LET new_opts == [panels[picked] EXCEPT
                                 !.home_title = IF title = "" THEN NodeName[picked]
                                                ELSE title]
             IN  /\ panels' = [panels EXCEPT ![picked] = new_opts]
                 /\ out' = ServiceOut("svc_set_home_title", eid, picked, << >>,
                               options_updated(picked, panels[picked], new_opts, states),
                               FALSE)
                 /\ UNCHANGED <<entries, states, data, runs, cooldown, shown, publishers, listeners>>

svc_set_temp_entity(eid, ent) ==
    LET picked == pick_entry_id(eid, publishers)
    IN  IF picked = None \/ picked \notin PanelIds
        THEN ServiceIgnored("svc_set_temp_entity", eid)
        ELSE LET new_opts == [panels[picked] EXCEPT !.temp_entity = ent]
             IN  /\ panels' = [panels EXCEPT ![picked] = new_opts]
                 /\ out' = ServiceOut("svc_set_temp_entity", eid, picked, << >>,
                               options_updated(picked, panels[picked], new_opts, states),
                               FALSE)
                 /\ UNCHANGED <<entries, states, data, runs, cooldown, shown, publishers, listeners>>

svc_dump_layout(eid) ==
    LET picked == pick_entry_id(eid, publishers)
    IN  IF picked = None \/ picked \notin PanelIds
        THEN ServiceIgnored("svc_dump_layout", eid)
        ELSE /\ out' = ServiceOut("svc_dump_layout", eid, picked, << >>,
                           dump_layout_with(panels[picked].home_title,
                                            temp_value(panels[picked], states),
                                            EntriesOfPanel(picked, entries), states).lines,
                           FALSE)
             /\ UNCHANGED <<entries, states, data, runs, cooldown, shown,
                            panels, publishers, listeners>>

\* async_setup_entry of a panel entry registers its publishers
SetupPanel(p) ==
    /\ p \notin publishers
    /\ publishers' = publishers \cup {p}
    /\ out' = NoOut
    /\ UNCHANGED <<entries, states, data, runs, cooldown, shown, panels, listeners>>

\* async_unload_entry removes them
UnloadPanel(p) ==
    /\ p \in publishers
    /\ publishers' = publishers \ {p}
    /\ out' = NoOut
    /\ UNCHANGED <<entries, states, data, runs, cooldown, shown, panels, listeners>>

InitServices ==
    /\ entries = [e \in EntryIds |-> IF e = "e1" THEN PageEntry(2, TilesA, None)
                                     ELSE AbsentEntry]
    /\ states = InitStates
    /\ data = InitData
    /\ runs = [r \in RunIds |-> IdleRun]
    /\ cooldown = 0
    /\ shown = {}
    /\ out = NoOut
    /\ panels = InitPanels
    /\ publishers \in SUBSET PanelIds
    /\ listeners = {}

NextServices ==
    \/ \E eid \in ServiceEntryIds : svc_publish_all(eid)
    \/ \E eid \in ServiceEntryIds : svc_publish_home(eid)
    \/ \E eid \in ServiceEntryIds, title \in ServiceTitles : svc_set_home_title(eid, title)
    \/ \E eid \in ServiceEntryIds, ent \in ServiceTemps : svc_set_temp_entity(eid, ent)
    \/ \E eid \in ServiceEntryIds : svc_dump_layout(eid)
    \/ \E r \in TouchRuns : PublishPage(r)
    \/ \E r \in TouchRuns : PublishOptionPages(r)
    \/ \E r \in TouchRuns : PublishSync(r)
    \/ SetupPanel(OtherPanel)
    \/ UnloadPanel(OtherPanel)

SpecServices == InitServices /\ [][NextServices]_vars

----------------------------------------------------------------------------
(* Home relays: the relay buttons of page 1 and the relay switch entities *)

\* RELAYS of switch.py: (display name, group id, output id)
RELAYS == << <<"Relay 1", 1, 1>>, <<"Relay 2", 2, 2>>, <<"Relay 3", 3, 40>> >>

\* command/output<n> with payload {"state":"on"} or {"state":"off"}
OutputCmd(n, on) ==
    [cmd |-> "output", page |-> 0, obj |-> "", id |-> n,
     text |-> IF on THEN "on" ELSE "off", args |-> << >>]

\* Dash480RelaySwitch.async_turn_on / async_turn_off of relay k
RelaySwitchTurn(k, on) ==
    /\ out' = [src |-> "relay_switch", calls |-> << >>,
               msgs |-> <<OutputCmd(RELAYS[k][3], on)>>, raised |-> FALSE]
    /\ UNCHANGED <<entries, states, data, runs, cooldown, shown, panels, publishers, listeners>>

\* the home page button that carries the display name of relay k
RelayButton(k) ==
    LET lines == home_layout_lines(HomeTitle, "--")
        i == CHOOSE j \in 1..Len(lines) :
                 lines[j].obj = "btn" /\ lines[j].page = 1 /\ lines[j].text = RELAYS[k][1]
    IN  Topic(1, "b", lines[i].id)

RelayTopics == {RelayButton(k) : k \in 1..Len(RELAYS)}

\* payloads of a relay button: released on, released off, no val, held
RelayInputs == {<<"up", 1>>, <<"up", 0>>, <<"up", -1>>, <<"long", -1>>, <<"changed", 1>>}

NextRelay ==
    \/ \E r \in TouchRuns : PublishAllStart(r)
    \/ \E r \in TouchRuns : PublishPage(r)
    \/ \E r \in TouchRuns : PublishOptionPages(r)
    \/ \E r \in TouchRuns : PublishSync(r)
    \/ \E t \in RelayTopics \cup DOMAIN data.ctrl_map, i \in RelayInputs :
          StateEvent(t, i[1], i[2])
    \/ \E k \in 1..Len(RELAYS), on \in BOOLEAN : RelaySwitchTurn(k, on)
    \/ Tick

SpecRelay == Init /\ [][NextRelay]_vars

----------------------------------------------------------------------------
(* Popup overlays: every touch event the published widgets can send *)

\* the overlay widgets of the pages that have them, and per page one widget
\* that no map names
OverlayTopics(d) ==
    {Topic(p, OverlayTargets[i][1], OverlayTargets[i][2]) :
        p \in DOMAIN d.popup_overlay_targets, i \in 1..Len(OverlayTargets)}
    \cup {Topic(p, "o", 10) : p \in DOMAIN d.popup_overlay_targets}

PopupTopics(d) == TouchTopics(d) \cup WideTopics(d) \cup OverlayTopics(d)

PopupInputs == TouchInputs \cup WideInputs

\* a popup overlay is shown: the last touch event unhid the five overlay widgets
\* of a page and the page's popup matrix is registered for a fan or a light
PopupShown ==
    /\ out.src = "state_event"
    /\ \E p \in DOMAIN data.popup_overlay_targets :
           /\ \A i \in 1..Len(OverlayTargets) :
                  \E j \in 1..Len(out.msgs) :
                      out.msgs[j] = SetAttr(p, OverlayTargets[i][1], OverlayTargets[i][2],
                                            "hidden", "0")
           /\ Topic(p, "m", 196) \in DOMAIN data.matrix_map
           /\ data.matrix_map[Topic(p, "m", 196)].type \in {"fan_select", "light_color"}

\* a touch event that shows a popup
ShowPopup ==
    \E t \in PopupTopics(data), i \in PopupInputs :
        StateEvent(t, i[1], i[2]) /\ PopupShown'

NextPopup ==
    \/ \E r \in TouchRuns : PublishAllStart(r)
    \/ \E r \in TouchRuns : PublishPage(r)
    \/ \E r \in TouchRuns : PublishOptionPages(r)
    \/ \E r \in TouchRuns : PublishSync(r)
    \/ \E t \in PopupTopics(data), i \in PopupInputs : StateEvent(t, i[1], i[2])
    \/ Tick

\* time passes, the operator keeps touching the panel, and an operator who can
\* open a popup by some touch does so
SpecPopup ==
    /\ Init
    /\ [][NextPopup]_vars
    /\ WF_vars(Tick)
    /\ WF_vars(\E t \in PopupTopics(data), i \in PopupInputs : StateEvent(t, i[1], i[2]))
    /\ SF_vars(ShowPopup)

----------------------------------------------------------------------------
(* The panel while a layout is redrawn: publish_all after a slot was rewritten *)

\* a second fan of the host
FanG == <<"fan", "g">>

RedrawStates ==
    [e \in Entities \cup {FanG} |->
        IF e = FanG THEN [InitStates[FanF] EXCEPT !.friendly_name = EntityIdText(FanG)]
        ELSE InitStates[e]]

\* one page with two fan tiles, each with its option page
InitRedraw ==
    /\ entries = [e \in EntryIds |-> IF e = "e1" THEN PageEntry(2, <<FanF, FanG>>, None)
                                     ELSE AbsentEntry]
    /\ states = RedrawStates
    /\ data = InitData
    /\ runs = [r \in RunIds |-> IdleRun]
    /\ cooldown = 0
    /\ shown = {}
    /\ out = NoOut
    /\ panels = InitPanels
    /\ publishers = {ThisPanel}
    /\ listeners = {}

\* the publish_all call made last
LastRun ==
    IF \A r \in RunIds : runs[r].ended = "never" THEN 0
    ELSE CHOOSE r \in RunIds :
             runs[r].ended # "never" /\ \A q \in RunIds : runs[q].ended # "never" => q <= r

\* what the layout messages sent since the last "clearpage all" have drawn, as
\* the run that sent them recorded it in its local maps
DrawnLoc == IF LastRun = 0 THEN EmptyLocals ELSE runs[LastRun].loc

\* the toggle buttons and matrices drawn on the panel
DrawnTopics ==
    DOMAIN DrawnLoc.ctrl_map \cup DOMAIN DrawnLoc.matrix_map
    \cup PairTopics(DrawnLoc.ent_toggle_map, DOMAIN DrawnLoc.ent_toggle_map)

\* the entity a drawn widget was drawn for
DrawnFor(t) ==
    IF t \in DOMAIN DrawnLoc.ctrl_map THEN DrawnLoc.ctrl_map[t]
    ELSE IF t \in DOMAIN DrawnLoc.matrix_map THEN DrawnLoc.matrix_map[t].entity
    ELSE CHOOSE ent \in DOMAIN DrawnLoc.ent_toggle_map :
             \E i \in 1..Len(DrawnLoc.ent_toggle_map[ent]) :
                 DrawnLoc.ent_toggle_map[ent][i] = <<t[1], t[3]>>

\* "await _publish_option_pages(...)": the option pages are on their way to the
\* panel, the coroutine is suspended in its last publish and has stored nothing
OptionPagesSent(r) ==
    LET run == runs[r]
        acc == publish_option_pages(run.loc.option_specs, 1, run.loc)
    IN
    /\ run.pc = "pages"
    /\ run.idx > Len(run.pages)
    /\ runs' = [runs EXCEPT ![r] =
          [run EXCEPT !.pc = "store",
                      !.loc = [acc EXCEPT !.msgs = << >>],
                      !.log = @ \o acc.msgs]]
    /\ out' = PubOut(acc.msgs)
    /\ shown' = shown \ {acc.option_specs[i].page_id : i \in 1..Len(acc.option_specs)}
    /\ UNCHANGED <<entries, states, data, cooldown, panels, publishers, listeners>>

\* the handle async_track_state_change_event returns to run r for its listener
\* of the given kind on entity ent
Handle(kind, ent, r) == <<kind, ent, r>>

\* "for key in list(...keys()): if key.startswith(prefix): u = pop(key); u()":
\* the listeners left when every handle stored in m has been called
Unsubscribed(ls, m) == ls \ {m[k] : k \in DOMAIN m}

\* the order in which a run walks set(ent_toggle_map.keys() + ent_matrix_map.keys())
RECURSIVE RewireOrder(_)
RewireOrder(ents) ==
    IF ents = {} THEN << >>
    ELSE LET e == CHOOSE x \in ents : TRUE
         IN  <<e>> \o RewireOrder(ents \ {e})

\* "rewire sensor listeners": the stored sensor handles are called and dropped,
\* one listener per entity of sensor_map is subscribed and its handle stored
RewireSensors(d, ls, loc, r) ==
    LET new == [ent \in DOMAIN loc.sensor_map |-> Handle("sensor", ent, r)]
    IN  [data |-> [d EXCEPT !.unsub_sensor = new],
         listeners |-> Unsubscribed(ls, d.unsub_sensor) \cup {new[ent] : ent \in DOMAIN new},
         idx |-> 0, msgs |-> << >>, done |-> TRUE]

\* the loop "for ent in set(...)" from its k-th entity on, up to the first await
\* that suspends the coroutine: the listener of the entity is subscribed, its
\* handle stored under unsub_ent_<ent>, and _sync_entity_state publishes; a sync
\* without messages does not suspend, and after the last entity the sensor
\* listeners are rewired
RECURSIVE SubscribeFrom(_, _, _, _, _, _)
SubscribeFrom(d, ls, k, loc, st, r) ==
    LET order == RewireOrder(DOMAIN loc.ent_toggle_map \cup DOMAIN loc.ent_matrix_map)
    IN  IF k > Len(order) THEN RewireSensors(d, ls, loc, r)
        ELSE LET ent == order[k]
                 h == Handle("ent", ent, r)
                 d1 == [d EXCEPT !.unsub_ent = MapSet(@, ent, h)]
                 ms == sync_entity_state(ent, st, loc.ent_toggle_map, d1)
             IN  IF ms = << >> THEN SubscribeFrom(d1, ls \cup {h}, k + 1, loc, st, r)
                 ELSE [data |-> d1, listeners |-> ls \cup {h}, idx |-> k, msgs |-> ms,
                       done |-> FALSE]

\* the coroutine resumes from its last publish: it stores its maps into
\* hass.data, calls and drops the stored unsub_ent_ handles and enters the loop
StoreAndRewire(r) ==
    LET run == runs[r]
        d1 == StoreMaps(data, run.loc)
        d2 == [d1 EXCEPT !.unsub_ent = EmptyMap]
        step == SubscribeFrom(d2, Unsubscribed(listeners, data.unsub_ent), 1, run.loc, states, r)
    IN
    /\ run.pc = "store"
    /\ runs' = [runs EXCEPT ![r] =
          [run EXCEPT !.pc = IF step.done THEN "idle" ELSE "rewire",
                      !.idx = step.idx,
                      !.ended = IF run.cfg = <<entries, states>> THEN "stored"
                                ELSE "stored_changed"]]
    /\ out' = PubOut(step.msgs)
    /\ data' = step.data
    /\ listeners' = step.listeners
    /\ UNCHANGED <<entries, states, cooldown, shown, panels, publishers>>

\* the sync of the entity subscribed last has been published: the loop goes on
RewireNext(r) ==
    LET run == runs[r]
        step == SubscribeFrom(data, listeners, run.idx + 1, run.loc, states, r)
    IN
    /\ run.pc = "rewire"
    /\ runs' = [runs EXCEPT ![r] =
          [run EXCEPT !.pc = IF step.done THEN "idle" ELSE "rewire", !.idx = step.idx]]
    /\ out' = PubOut(step.msgs)
    /\ data' = step.data
    /\ listeners' = step.listeners
    /\ UNCHANGED <<entries, states, cooldown, shown, panels, publishers>>

\* publish_all is called again only when the previous call has returned; the
\* operator rewrites a slot between two calls and touches what the panel shows
NextRedraw ==
    \/ \E r \in RunIds : (\A q \in RunIds : runs[q].pc = "idle") /\ PublishAllStart(r)
    \/ \E r \in RunIds : PublishPage(r)
    \/ \E r \in RunIds : OptionPagesSent(r)
    \/ \E r \in RunIds : StoreAndRewire(r)
    \/ \E r \in RunIds : RewireNext(r)
    \/ \E slot \in TextSlots, v \in SlotInputs \cup {NoEnt} :
          (\A q \in RunIds : runs[q].pc = "idle") /\ SlotEntityTextSetValue("e1", slot, v)
    \/ \E t \in DrawnTopics, i \in TouchInputs : StateEvent(t, i[1], i[2])
    \/ Tick

SpecRedraw == InitRedraw /\ [][NextRedraw]_vars

----------------------------------------------------------------------------
(* State listeners: the rewiring at the end of publish_all, runs overlapping *)

\* one page with a switch, a fan and a sensor tile
InitRewire ==
    /\ entries = [e \in EntryIds |-> IF e = "e1" THEN PageEntry(2, <<SwitchA, FanF, SensorT>>, None)
                                     ELSE AbsentEntry]
    /\ states = InitStates
    /\ data = InitData
    /\ runs = [r \in RunIds |-> IdleRun]
    /\ cooldown = 0
    /\ shown = {}
    /\ out = NoOut
    /\ panels = InitPanels
    /\ publishers = {ThisPanel}
    /\ listeners = {}

\* publish_all is called at any time; the operator removes a tile in between
NextRewire ==
    \/ \E r \in RunIds : PublishAllStart(r)
    \/ \E r \in RunIds : PublishPage(r)
    \/ \E r \in RunIds : OptionPagesSent(r)
    \/ \E r \in RunIds : StoreAndRewire(r)
    \/ \E r \in RunIds : RewireNext(r)
    \/ \E slot \in TextSlots : RemoveSlotSelect("e1", slot)

SpecRewire == InitRewire /\ [][NextRewire]_vars

\* the same with every publish_all called after the previous one has returned
NextRewireInTurn ==
    \/ \E r \in RunIds : (\A q \in RunIds : runs[q].pc = "idle") /\ PublishAllStart(r)
    \/ \E r \in RunIds : PublishPage(r)
    \/ \E r \in RunIds : OptionPagesSent(r)
    \/ \E r \in RunIds : StoreAndRewire(r)
    \/ \E r \in RunIds : RewireNext(r)
    \/ \E slot \in TextSlots : RemoveSlotSelect("e1", slot)

SpecRewireInTurn == InitRewire /\ [][NextRewireInTurn]_vars

----------------------------------------------------------------------------
(* Properties *)

\* a run has sent its first message and has not yet stored its maps
InFlight(r) == runs[r].pc = "pages"

\* some publish_all has stored its maps and no run is under way
Published ==
    /\ \E r \in RunIds : runs[r].ended = "stored"
    /\ \A r \in RunIds : runs[r].pc = "idle"

\* the (entity, page, id) triples of the toggle map
ToggleEntries(d) ==
    UNION { { <<ent, d.ent_toggle_map[ent][i][1], d.ent_toggle_map[ent][i][2]>> :
                i \in 1..Len(d.ent_toggle_map[ent]) } : ent \in DOMAIN d.ent_toggle_map }

\* the main toggle buttons of the tiles, p<page>b<base+2>
MainToggles(d) == {x \in ToggleEntries(d) : x[3] % 10 = 2}

\* the (entity, page, id) triples of the entity-matrix map
MatrixEntries(d) ==
    UNION { { <<ent, d.ent_matrix_map[ent][i][1], d.ent_matrix_map[ent][i][2]>> :
                i \in 1..Len(d.ent_matrix_map[ent]) } : ent \in DOMAIN d.ent_matrix_map }

\* C1: after publish_all, with no overlay visible or registered on the page and
\* no cooldown, an 'up' on the main toggle button of a switch, light or fan tile
\* calls <domain>.turn_on for the tile's entity when val is 1 and
\* <domain>.turn_off otherwise.
C1_ToggleCallsService ==
    [][\A x \in MainToggles(data), v \in {0, 1} :
          ( /\ Published
            /\ cooldown = 0
            /\ shown = {}
            /\ MapGet(data.popup_overlay_targets, x[2], << >>) = << >>
            /\ StateEvent(Topic(x[2], "b", x[3]), "up", v) )
          => out'.calls = << Call(DomainOf(x[1]),
                                  IF v = 1 THEN "turn_on" ELSE "turn_off", x[1], << >>) >>
      ]_vars

\* C2: no option page id allocated by a publish_all run equals the page number of
\* a page configured during that run, nor the home page 1, nor the header page 0.
C2_OptionIdsAvoidPages ==
    \A r \in RunIds :
        runs[r].ended # "never" =>
            \A i \in 1..Len(runs[r].loc.option_specs) :
                LET id == runs[r].loc.option_specs[i].page_id
                    ents == runs[r].cfg[1]
                IN  /\ id \notin {0, 1}
                    /\ \A e \in EntryIds : ents[e].present => ents[e].page_order # id

\* the fan tiles and colour-capable light tiles of a page, in layout order
OptionTilesOf(pe, st) ==
    LET asg == Assignments(pe)
        wanted == SelectSeq(asg, LAMBDA a :
                      /\ a[2] # NoEnt
                      /\ a[1].special = None
                      /\ \/ DomainOf(a[2][2]) = "fan"
                         \/ DomainOf(a[2][2]) = "light" /\ has_color(st[a[2][2]].modes))
    IN  [i \in 1..Len(wanted) |-> <<wanted[i][2][2], pe.page_order>>]

\* the same over the first k pages a run draws
RECURSIVE RunOptionTiles(_, _)
RunOptionTiles(run, k) ==
    IF k = 0 THEN << >>
    ELSE RunOptionTiles(run, k - 1) \o OptionTilesOf(entries[run.pages[k]], states)

\* C3: in every publish_all run the option pages get the ids 50, 51, 52, ... in
\* render order (pages by ascending page_order, tiles in layout order), one id per
\* fan tile and per colour-capable light tile, pairwise distinct, and the count
\* starts again at 50 in each run.
C3_OptionIdsSequential ==
    \A r \in RunIds :
        runs[r].ended # "never" =>
            LET run == runs[r]
                specs == run.loc.option_specs
                tiles == RunOptionTiles(run, run.idx - 1)
            IN  /\ \A k \in 1..(Len(run.pages) - 1) :
                       entries[run.pages[k]].page_order <= entries[run.pages[k + 1]].page_order
                /\ Len(specs) = Len(tiles)
                /\ \A i \in 1..Len(specs) :
                       /\ specs[i].page_id = FirstOptionPage + i - 1
                       /\ specs[i].entity = tiles[i][1]
                       /\ specs[i].origin_page = tiles[i][2]
                /\ \A i, j \in 1..Len(specs) : specs[i].page_id = specs[j].page_id => i = j
                /\ run.loc.next_option_page = FirstOptionPage + Len(specs)

\* two runs have each drawn a fan tile and a colour light tile
C3_Witness ==
    /\ \A r \in RunIds : runs[r].ended = "stored"
    /\ \E r \in RunIds : Len(runs[r].loc.option_specs) = 2
    /\ \A r \in RunIds : runs[r].loc.option_specs[1].page_id = FirstOptionPage

\* the pages named by the keys and values of the stored maps
MapPages(d) ==
    {t[1] : t \in DOMAIN d.ctrl_map \cup DOMAIN d.matrix_map \cup DOMAIN d.color_btn_map
                  \cup DOMAIN d.option_open_map \cup DOMAIN d.option_close_map}
    \cup {x[2] : x \in ToggleEntries(d) \cup MatrixEntries(d)}

\* the pages that have an entry in the popup map or the popup-overlay registry
PopupPages(d) ==
    DOMAIN d.popup_overlay_targets
    \cup {t[1] : t \in DOMAIN d.popup_map}
    \cup {d.popup_map[t].page : t \in DOMAIN d.popup_map}

\* the pages a configuration and its option pages account for
PagesOf(ents, specs) ==
    {ents[e].page_order : e \in {x \in EntryIds : ents[x].present}}
    \cup {specs[i].page_id : i \in 1..Len(specs)}

\* C4: when a publish_all run stores its maps, every stored map, the popup map
\* and the popup-overlay registry included, only names pages of the configuration
\* of that run (the popup entries its configured pages, the other maps these and
\* its option pages): nothing of an earlier run survives.
C4_MapsRebuilt ==
    [][\A r \in RunIds :
          ( /\ PublishOptionPages(r)
            /\ runs'[r].ended = "stored"
            /\ \A q \in RunIds \ {r} : ~InFlight(q) )
          => /\ MapPages(data') \subseteq PagesOf(runs[r].cfg[1], data'.option_specs)
             /\ PopupPages(data') \subseteq PagesOf(runs[r].cfg[1], << >>)
      ]_vars

\* C5: while the cooldown after closing an overlay lasts, a touch event, 'up' or
\* 'changed', on any widget causes no service call and no message to the panel.
C5_CooldownIgnoresTouch ==
    [][\A t \in TouchTopics(data), i \in TouchInputs :
          ( /\ cooldown > 0
            /\ i[1] \in {"up", "changed"}
            /\ StateEvent(t, i[1], i[2]) )
          => out'.calls = << >> /\ out'.msgs = << >>
      ]_vars

\* C6: after publish_all the forward and the reverse maps agree: every toggle-map
\* entry has its control-map key, every entity-matrix entry its matrix-map key,
\* and every control-map and matrix-map key is listed for its entity.
C6_MapsAgree ==
    Published =>
        /\ \A x \in ToggleEntries(data) :
               MapGet(data.ctrl_map, Topic(x[2], "b", x[3]), NoEnt) = x[1]
        /\ \A x \in MatrixEntries(data) :
               /\ Topic(x[2], "m", x[3]) \in DOMAIN data.matrix_map
               /\ data.matrix_map[Topic(x[2], "m", x[3])].entity = x[1]
        /\ \A t \in DOMAIN data.ctrl_map : <<data.ctrl_map[t], t[1], t[3]>> \in ToggleEntries(data)
        /\ \A t \in DOMAIN data.matrix_map :
               <<data.matrix_map[t].entity, t[1], t[3]>> \in MatrixEntries(data)

\* no entity occupies more than one of the slots s1..s12
NoDuplicate(sl) ==
    \A i, j \in 1..NumSlots : (sl[i] # NoEnt /\ sl[i] = sl[j]) => i = j

\* C7 as stated: on every page entry, after any sequence of slot-changing
\* operations, no entity occupies more than one of the slots s1..s12.
C7_SlotsUnique ==
    \A e \in EntryIds : entries[e].present => NoDuplicate(entries[e].s)

\* C7 amended: the Add Entity button, the Add Entity select, the Remove Entity
\* button and the Remove Slot select never put an entity into a second slot: if
\* no entity occupies two slots before one of them runs, none does after it.
C7_AddRemoveKeepUnique ==
    [][\A e \in SlotEntries :
          ( /\ entries[e].present
            /\ NoDuplicate(entries[e].s)
            /\ \/ AddEntityButtonPress(e)
               \/ \E ent \in SlotInputs : AddEntitySelect(e, ent)
               \/ RemoveEntityButtonPress(e)
               \/ \E slot \in TextSlots : RemoveSlotSelect(e, slot) )
          => NoDuplicate(entries'[e].s)
      ]_vars

\* the Add Entity button has been pressed with a pending entity that a slot
\* already holds while another slot is free, and the slots are still unique
C7_Witness ==
    /\ out.src = "add_button"
    /\ entries["e1"].present
    /\ entries["e1"].pending_entity \in Assigned(entries["e1"].s)
    /\ FirstEmpty(entries["e1"].s) # 0
    /\ NoDuplicate(entries["e1"].s)

\* C8: at most one publish_all run is between its first message and the storing
\* of its maps, and no touch event is handled while a run is.
C8_RunsDoNotInterleave ==
    /\ \A r, q \in RunIds : (InFlight(r) /\ InFlight(q)) => r = q
    /\ out.src = "state_event" => \A r \in RunIds : ~InFlight(r)

\* the maps publish_all stores from its locals
StoredMapsOf(loc) ==
    << loc.ctrl_map, loc.sensor_map, loc.ent_toggle_map, loc.ent_matrix_map, loc.matrix_map,
       loc.color_btn_map, loc.fan_status_map, loc.option_specs, loc.option_open_map,
       loc.option_close_map, loc.option_page_titles >>

\* C9: two publish_all runs made with the same page entries, options and entity
\* states, unchanged while they ran, emit the same sequence of clearpage/jsonl
\* messages and store the same maps, whatever was published or touched before.
C9_PublishDeterministic ==
    \A r, q \in RunIds :
        ( /\ runs[r].ended = "stored"
          /\ runs[q].ended = "stored"
          /\ runs[r].cfg = runs[q].cfg )
        => /\ runs[r].log = runs[q].log
           /\ StoredMapsOf(runs[r].loc) = StoredMapsOf(runs[q].loc)

\* a second run with the configuration of the first has stored its maps, with
\* option pages drawn, after a tap was consumed on a page of the first run
C9_Witness ==
    /\ runs[1].ended = "stored"
    /\ runs[2].ended = "stored"
    /\ runs[1].cfg = runs[2].cfg
    /\ Len(runs[2].loc.option_specs) = 2
    /\ cooldown > 0

\* C10: an 'up' tap on a widget outside a page's popup overlay is consumed to
\* close the overlay (overlay widgets hidden, no service call, cooldown started)
\* only if the overlay of that page is visible on the panel.
C10_ConsumedOnlyWhenVisible ==
    [][\A t \in TouchTopics(data), v \in {0, 1} :
          ( /\ cooldown = 0
            /\ t \notin DOMAIN data.option_close_map \cup DOMAIN data.option_open_map
            /\ ~InTargets(OverlayTargets, t[2], t[3])
            /\ StateEvent(t, "up", v)
            /\ cooldown' = PopupCooldown
            /\ out'.calls = << >>
            /\ out'.msgs = HideMsgs(data, t[1])
            /\ out'.msgs # << >> )
          => t[1] \in shown
      ]_vars

\* the configured page numbers of a set of page entries
ConfiguredPages(ents) == {ents[e].page_order : e \in {x \in EntryIds : ents[x].present}}

\* <<prev, next>> of the last page object a message log holds for page p
LinkOf(log, p) ==
    LET idx == {i \in 1..Len(log) : log[i].cmd = "jsonl" /\ log[i].obj = "page"
                                    /\ log[i].page = p}
    IN  log[CHOOSE i \in idx : \A j \in idx : j <= i].args

\* the pages reached by following 'next' n times from page p
RECURSIVE FollowNext(_, _, _)
FollowNext(log, p, n) ==
    IF n = 0 THEN << >>
    ELSE <<LinkOf(log, p)[2]>> \o FollowNext(log, LinkOf(log, p)[2], n - 1)

\* C11: the prev/next links a publish_all run publishes form one ring over home
\* page 1 and the configured pages in ascending page_order: 'next' from page 1
\* visits every configured page once and returns to 1, and 'prev' inverts 'next'.
\* (Stated for runs none of whose option pages shares its id with a page.)
C11_LinksFormRing ==
    \A r \in RunIds :
        ( /\ runs[r].ended = "stored"
          /\ ConfiguredPages(runs[r].cfg[1]) # {}
          /\ \A i \in 1..Len(runs[r].loc.option_specs) :
                 runs[r].loc.option_specs[i].page_id \notin ConfiguredPages(runs[r].cfg[1]) )
        => LET log == runs[r].log
               pages == ConfiguredPages(runs[r].cfg[1])
               n == Cardinality({e \in EntryIds : runs[r].cfg[1][e].present})
               walk == FollowNext(log, 1, n + 1)
           IN  /\ \A k \in 1..n : walk[k] \in pages
               /\ \A k \in 1..(n - 1) : walk[k] < walk[k + 1]
               /\ walk[n + 1] = 1
               /\ \A q \in pages \cup {1} :
                      /\ LinkOf(log, q)[2] \in pages \cup {1}
                      /\ LinkOf(log, LinkOf(log, q)[2])[1] = q

\* C12: handling a panel state message never raises.
C12_StateEventNeverRaises ==
    out.src = "state_event" => ~out.raised

\* the option specs the router holds
StoredSpecs == {data.option_specs[i] : i \in 1..Len(data.option_specs)}

\* the message log of a run that allocated option spec sp and stored its maps
LogsOf(sp) ==
    {runs[r].log : r \in {x \in RunIds :
        /\ runs[x].ended \in {"stored", "stored_changed"}
        /\ \E i \in 1..Len(runs[x].loc.option_specs) : runs[x].loc.option_specs[i] = sp}}

\* the option page of spec sp is drawn for sp's tile and links back to its origin
OptionPageDrawn(sp) ==
    /\ sp.trigger_topic[1] = sp.origin_page
    /\ sp.trigger_topic[2] = "b"
    /\ sp.trigger_topic[3] % 10 = 4
    /\ LogsOf(sp) # {}
    /\ \A log \in LogsOf(sp) :
           /\ LinkOf(log, sp.page_id) = <<sp.origin_page, sp.origin_page>>
           /\ \E i \in 1..Len(log) :
                  /\ log[i].page = sp.page_id
                  /\ log[i].obj = "label" /\ log[i].id = 11
                  /\ log[i].text = sp.friendly_name

\* an 'up' on sp's trigger queues one page command to sp's option page, an 'up'
\* on that page's Close button one page command to the trigger's page
OptionTapsNavigate(sp) ==
    /\ \A v \in {0, 1} :
           StateEvent(sp.trigger_topic, "up", v)
           => out'.msgs = <<PageCmd(sp.page_id)>> /\ out'.calls = << >>
    /\ \A v \in {0, 1} :
           StateEvent(Topic(sp.page_id, "b", 190), "up", v)
           => out'.msgs = <<PageCmd(sp.trigger_topic[1])>> /\ out'.calls = << >>

\* C13 as stated: after publish_all, an 'up' on a tile's option trigger
\* p<page>b<base+4> queues exactly one page command to the tile's option page and
\* no service call, an 'up' on that page's Close button (190) exactly one page
\* command to the trigger's page, and the option page's prev and next are that page.
C13_OptionRoundTrip ==
    [][\A sp \in StoredSpecs :
          Published => OptionPageDrawn(sp) /\ OptionTapsNavigate(sp)
      ]_vars

\* C13, amended: the same, for taps that arrive while no popup cooldown is active.
C13_OptionRoundTripNoCooldown ==
    [][\A sp \in StoredSpecs :
          Published => /\ OptionPageDrawn(sp)
                       /\ cooldown = 0 => OptionTapsNavigate(sp)
      ]_vars

\* a tap on an option trigger has just queued the page command of an option page
C13_Witness ==
    /\ Published
    /\ out.src = "state_event"
    /\ out.calls = << >>
    /\ \E sp \in StoredSpecs :
           /\ sp.page_id \notin ConfiguredPages(entries)
           /\ out.msgs = <<PageCmd(sp.page_id)>>

\* the tiles of a layout that take an entity
EntityTiles(layout) ==
    SelectSeq(tile_specs_for_layout(layout), LAMBDA t : t.special = None)

\* page p of the log shows the name label of entity ent on tile t
LabelledOn(log, p, ent, t) ==
    LET xy == cell_xy(t.row, t.col)
        wh == cell_wh(t.rs, t.cs)
    IN  \E i \in 1..Len(log) :
            /\ log[i].page = p /\ log[i].obj = "label"
            /\ log[i].text = EntityIdText(ent)
            /\ log[i].args = <<xy[1] + 8, xy[2] + 6, Max(112, wh[1] - 16), 24>>

\* page p of the log shows a widget that carries the name of entity ent
Drawn(log, p, ent) ==
    \E i \in 1..Len(log) : log[i].page = p /\ log[i].text = EntityIdText(ent)

\* the entities the maps of a run route to or update
Mapped(loc) ==
    DOMAIN loc.ent_toggle_map \cup DOMAIN loc.sensor_map \cup DOMAIN loc.ent_matrix_map
    \cup DOMAIN loc.fan_status_map \cup {loc.ctrl_map[t] : t \in DOMAIN loc.ctrl_map}

\* the runs that published page entry e1 from an unchanged configuration
LayoutRuns == {r \in RunIds : runs[r].ended = "stored" /\ runs[r].cfg[1]["e1"].present}

\* C14: on a page whose effective layout is not shades_row, publish_all renders
\* the first K filled slots in ascending slot index, the k-th on the k-th entity
\* tile (K = 6 for grid_3x2 and clock_top, 9 for grid_3x3); filled slots beyond K
\* are not rendered and appear in no map.
C14_FirstKSlotsRendered ==
    \A r \in LayoutRuns :
        LET pe == runs[r].cfg[1]["e1"]
            p == pe.page_order
            tiles == EntityTiles(EffectiveLayout(pe))
            filled == FilledSlots(pe)
        IN  EffectiveLayout(pe) # "shades_row"
            => /\ Len(tiles) = IF EffectiveLayout(pe) = "grid_3x3" THEN 9 ELSE 6
               /\ \A k \in 1..Len(filled) :
                      IF k <= Len(tiles)
                      THEN LabelledOn(runs[r].log, p, filled[k][2], tiles[k])
                      ELSE /\ ~Drawn(runs[r].log, p, filled[k][2])
                           /\ filled[k][2] \notin Mapped(runs[r].loc)

\* page p of the log shows the shades bar of cover ent on the full-width tile t
ShadesBarOn(log, p, ent, t) ==
    LET y == cell_xy(t.row, 0)[2]
        h == cell_wh(t.rs, t.cs)[2]
        full_x == cell_xy(t.row, 0)[1]
        full_w == cell_wh(1, 3)[1]
        full_y == y + (h - 88) \div 2
    IN  \E i \in 1..Len(log) :
            /\ log[i].page = p /\ log[i].obj = "label"
            /\ log[i].text = EntityIdText(ent)
            /\ log[i].args = <<full_x + 18, full_y + 12, full_w - 36, 24>>

\* page p of the log shows the Up/Pause/Down matrix of a shades bar
HasShadesMatrix(log, p) ==
    \E i \in 1..Len(log) :
        log[i].page = p /\ log[i].obj = "btnmatrix" /\ log[i].text = "Up,Pause,Down"

HasCover(pe) == SelectSeq(FilledSlots(pe), IsCoverSlot) # << >>

\* C15: in shades_row, whenever the page has a cover, the full-width shades tile
\* (row 2, three columns) shows the first cover in slot order, and the non-cover
\* entities fill the six regular tiles in slot order.
C15_ShadesTileTakesFirstCover ==
    \A r \in LayoutRuns :
        LET pe == runs[r].cfg[1]["e1"]
            p == pe.page_order
            covers == SelectSeq(FilledSlots(pe), IsCoverSlot)
            others == SelectSeq(FilledSlots(pe), IsOtherSlot)
            tiles == EntityTiles("shades_row")
        IN  (EffectiveLayout(pe) = "shades_row" /\ covers # << >>)
            => /\ ShadesBarOn(runs[r].log, p, covers[1][2], Wide(2, "shades"))
               /\ \A k \in 1..Min(Len(others), Len(tiles)) :
                      LabelledOn(runs[r].log, p, others[k][2], tiles[k])

\* C16: publish_all draws a page as shades_row on its own only when the page has
\* a cover and no layout is configured; a configured layout is the one drawn.
C16_ConfiguredLayoutKept ==
    \A r \in LayoutRuns :
        LET pe == runs[r].cfg[1]["e1"]
            p == pe.page_order
        IN  /\ pe.layout = None
               => EffectiveLayout(pe) = IF HasCover(pe) THEN "shades_row" ELSE "grid_3x2"
            /\ pe.layout # None
               => /\ EffectiveLayout(pe) = pe.layout
                  /\ pe.layout # "shades_row" => ~HasShadesMatrix(runs[r].log, p)

\* no overlay is registered for page pg
NoOverlay(d, pg) == MapGet(d.popup_overlay_targets, pg, << >>) = << >>

\* the cover service of matrix buttons Up, Pause, Down
CoverServiceOf == <<"open_cover", "stop_cover", "close_cover">>

\* C17: a cover matrix event ('up' or 'changed') dispatches exactly one cover
\* service, open_cover for val 0, stop_cover for 1, close_cover for 2, and none
\* when val is missing or not one of 0, 1, 2.  ('up' events are taken outside
\* the cooldown and with no overlay registered on the page.)
C17_CoverMatrixDispatch ==
    [][\A t \in MatricesOf(data, "cover_cmd"), i \in WideInputs :
          ( /\ Published
            /\ i[1] = "up" => cooldown = 0 /\ NoOverlay(data, t[1])
            /\ StateEvent(t, i[1], i[2]) )
          => out'.calls = IF i[2] \in {0, 1, 2}
                          THEN << Call("cover", CoverServiceOf[i[2] + 1],
                                       data.matrix_map[t].entity, << >>) >>
                          ELSE << >>
      ]_vars

\* the fan request of speed index v
FanRequest(ent, v) ==
    IF v = 0 THEN Call("fan", "turn_off", ent, << >>)
    ELSE Call("fan", "set_percentage", ent, <<"percentage", <<33, 66, 100>>[v]>>)

\* C18: a fan-speed matrix event on a fan option page (p<option page>m60) makes
\* exactly one service call for that page's fan: fan.turn_off for 0 and
\* fan.set_percentage 33/66/100 for 1/2/3.  (Taken outside the cooldown.)
C18_FanMatrixDispatch ==
    [][\A sp \in StoredSpecs, ev \in {"up", "changed"}, v \in 0..3 :
          ( /\ Published
            /\ sp.type = "fan"
            /\ cooldown = 0
            /\ StateEvent(Topic(sp.page_id, "m", 60), ev, v) )
          => out'.calls = << FanRequest(sp.entity, v) >>
      ]_vars

\* the colours of chips 80..85 as the service payload carries them
ChipColour ==
    << <<"rgb_color", 255, 255, 255>>, <<"rgb_color", 255, 0, 0>>,
       <<"rgb_color", 0, 255, 0>>, <<"rgb_color", 0, 0, 255>>,
       <<"color_temp_kelvin", 2700>>, <<"color_temp_kelvin", 6500>> >>

\* C20: 'up' on a colour chip (80..85) of a light option page calls light.turn_on
\* once for that page's light with the chip's colour, publishes val 1 to the
\* Power button (40) of the page and calls nothing else; 'up' on the Power button
\* calls light.turn_on when val is 1 and light.turn_off otherwise.  (Taken
\* outside the cooldown.)
C20_ChipAndPower ==
    [][\A sp \in StoredSpecs, v \in MatrixVals :
          (Published /\ sp.type = "light_color" /\ cooldown = 0)
          => /\ \A c \in 0..5 :
                    StateEvent(Topic(sp.page_id, "b", 80 + c), "up", v)
                    => /\ out'.calls = << Call("light", "turn_on", sp.entity, ChipColour[c + 1]) >>
                       /\ out'.msgs = << SetAttr(sp.page_id, "b", 40, "val", "1") >>
             /\ StateEvent(Topic(sp.page_id, "b", 40), "up", v)
                => out'.calls = << Call("light", IF v = 1 THEN "turn_on" ELSE "turn_off",
                                        sp.entity, << >>) >>
      ]_vars

\* the fan state the claim takes to result from a request of the router
FanStateAfter(call) ==
    IF call.service = "turn_off"
    THEN [state |-> "off", percentage |-> 0, preset_mode |-> ""]
    ELSE [state |-> "on", percentage |-> call.data[2], preset_mode |-> ""]

\* the status labels fan_status_map holds for a fan
StatusLabels(d, ent) ==
    LET fs == MapGet(d.fan_status_map, ent, << >>)
    IN  {fs[k] : k \in 1..Len(fs)}

\* C19: for each speed index i in 0..3, the fan state that results from the
\* router's request for i (off; on at 33, 66, 100 percent, no preset) is
\* labelled by _sync_entity_state with the i-th option text of the speed matrix
\* (Off, Low, Med, High) on every status label of the fan.
C19_SpeedLabelRoundTrip ==
    [][\A sp \in StoredSpecs, i \in 0..3 :
          ( /\ Published
            /\ sp.type = "fan"
            /\ StateChanged(sp.entity,
                   FanStateAfter(RouteMatrix(Topic(sp.page_id, "m", 60), i, data).calls[1])) )
          => /\ Topic(sp.page_id, "l", 40) \in
                    {Topic(x[1], x[2][1], x[2][2]) : x \in StatusLabels(data, sp.entity)}
             /\ \A x \in StatusLabels(data, sp.entity) :
                    \E k \in 1..Len(out'.msgs) :
                        out'.msgs[k] = SetAttr(x[1], x[2][1], x[2][2], "text",
                                               FanSpeedOptions[i + 1])
      ]_vars

\* the fan runs at 66 percent after a request and its labels have been set to Med
C19_Witness ==
    /\ Published
    /\ out.src = "state_changed"
    /\ states[FanF].state = "on" /\ states[FanF].percentage = 66
    /\ states[FanF].preset_mode = ""
    /\ \E sp \in StoredSpecs :
           /\ sp.entity = FanF
           /\ RouteMatrix(Topic(sp.page_id, "m", 60), 2, data).calls
                  = << Call("fan", "set_percentage", FanF, <<"percentage", 66>>) >>
           /\ \E k \in 1..Len(out.msgs) :
                  out.msgs[k] = SetAttr(sp.page_id, "l", 40, "text", "Med")

\* the (entity, page, id) toggle widgets of switches, lights and fans in a toggle map
ToggleWidgets(ent_toggle_map) ==
    UNION { { <<ent, ent_toggle_map[ent][i][1], ent_toggle_map[ent][i][2]>> :
                i \in 1..Len(ent_toggle_map[ent]) } :
            ent \in {e \in DOMAIN ent_toggle_map : DomainOf(e) \in {"switch", "light", "fan"}} }

\* the messages hold val 1 for widget x if its entity is on in st, else val 0
ValPublished(msgs, x, st) ==
    \E k \in 1..Len(msgs) :
        msgs[k] = SetAttr(x[2], "b", x[3], "val", IF st[x[1]].state = "on" THEN "1" ELSE "0")

C22_OnlineStartsOnePublish ==
    [][/\ push_layout("online")
          => Cardinality({r \in RunIds : runs[r].pc = "idle" /\ runs'[r].pc = "pages"}) = 1
       /\ push_layout("offline") => UNCHANGED <<data, runs>>
       /\ \A r \in RunIds :
              ( /\ PublishSync(r)
                /\ runs[r].ended = "stored"
                /\ runs[r].cfg[1] = entries
                /\ \A q \in RunIds \ {r} : runs[q].pc = "idle" )
              => /\ MapPages(data') \subseteq PagesOf(entries, data'.option_specs)
                 /\ PopupPages(data') \subseteq PagesOf(entries, << >>)
      ]_vars

\* the trigger topics of a sequence of option specs
TriggersOf(specs) == {specs[i].trigger_topic : i \in 1..Len(specs)}

\* C23: for the same configuration and entity states, every line dump_layout
\* writes for a page widget has the widget id and the x, y, w, h of a line
\* publish_all sends, and the option-page trigger topics dump_layout records are
\* those publish_all registers.
C23_DumpMatchesPublish ==
    [][\A r \in TouchRuns :
          ( /\ runs[r].ended = "stored" /\ runs[r].pc = "idle"
            /\ runs[r].cfg = <<entries, states>>
            /\ DumpLayout )
          => /\ \A k \in 1..Len(out'.msgs) :
                    out'.msgs[k].obj # "page"
                    => \E j \in 1..Len(runs[r].log) :
                           /\ runs[r].log[j].cmd = "jsonl"
                           /\ runs[r].log[j].page = out'.msgs[k].page
                           /\ runs[r].log[j].obj = out'.msgs[k].obj
                           /\ runs[r].log[j].id = out'.msgs[k].id
                           /\ runs[r].log[j].args = out'.msgs[k].args
             /\ TriggersOf(dump_layout(entries, states).option_specs)
                    = DOMAIN data.option_open_map
      ]_vars

\* slot i is the lowest-numbered empty slot of s
LowestEmpty(s, i) == s[i] = NoEnt /\ \A j \in 1..(i - 1) : s[j] # NoEnt

\* page options o2 are o1 with entity ent in slot i and no pending entity
PlacedIn(o1, o2, ent, i) ==
    o2 = [o1 EXCEPT !.s[i] = ent, !.pending_entity = NoEnt]

\* C24: pressing Add Entity with a pending entity that is in no slot, on a page
\* with an empty slot, puts the entity in the lowest-numbered empty slot, clears
\* pending_entity, leaves every other slot unchanged and requests publish_all of
\* the panel; with no pending entity, all 12 slots filled or the entity already
\* in a slot, the options are unchanged and no publish is requested.
C24_AddButtonFillsLowestEmpty ==
    [][\A e \in SlotEntries :
          AddEntityButtonPress(e)
          => LET o == entries[e]
                 ent == o.pending_entity
             IN  IF /\ ent # NoEnt
                    /\ ent \notin Assigned(o.s)
                    /\ \E i \in 1..NumSlots : o.s[i] = NoEnt
                 THEN /\ \E i \in 1..NumSlots :
                             LowestEmpty(o.s, i) /\ PlacedIn(o, entries'[e], ent, i)
                      /\ out'.calls = <<PublishAllCall>>
                 ELSE /\ entries' = entries
                      /\ out'.calls = << >>
      ]_vars

\* the Add Entity button has just placed a picked entity and requested a publish
C24_Witness ==
    /\ out.src = "add_button"
    /\ out.calls = <<PublishAllCall>>
    /\ \E e \in SlotEntries :
           /\ entries[e].pending_entity = NoEnt
           /\ Assigned(entries[e].s) \cap SlotInputs # {}

\* C25: selecting an entity in the Add Entity select places it in the
\* lowest-numbered empty slot, clears pending_entity and requests publish_all; with
\* all 12 slots filled it is stored as pending_entity only, no slot changes and no
\* publish is requested, and an Add Entity press after one slot has been removed
\* places that pending entity in the freed slot.
C25_SelectPlacesOrPends ==
    [][\A e \in SlotEntries :
          LET o == entries[e]
          IN  /\ \A ent \in SlotInputs :
                     AddEntitySelect(e, ent)
                     => IF \E i \in 1..NumSlots : o.s[i] = NoEnt
                        THEN /\ \E i \in 1..NumSlots :
                                    LowestEmpty(o.s, i) /\ PlacedIn(o, entries'[e], ent, i)
                             /\ out'.calls = <<PublishAllCall>>
                        ELSE /\ entries'[e] = [o EXCEPT !.pending_entity = ent]
                             /\ out'.calls = << >>
              /\ \A i \in 1..NumSlots :
                     ( /\ o.pending_entity # NoEnt
                       /\ o.pending_entity \notin Assigned(o.s)
                       /\ o.s[i] = NoEnt
                       /\ \A j \in (1..NumSlots) \ {i} : o.s[j] # NoEnt
                       /\ AddEntityButtonPress(e) )
                     => /\ PlacedIn(o, entries'[e], o.pending_entity, i)
                        /\ out'.calls = <<PublishAllCall>>
      ]_vars

\* an entity picked while the page was full sits in the slot a removal freed,
\* and all 12 slots are filled again
C25_Witness ==
    /\ out.src = "add_button"
    /\ out.calls = <<PublishAllCall>>
    /\ \E e \in SlotEntries :
           /\ \A i \in 1..NumSlots : entries[e].s[i] # NoEnt
           /\ Cardinality(Assigned(entries[e].s)) = NumSlots
           /\ entries[e].s[NumSlots] \in SlotInputs

\* C26: pressing Remove Entity clears exactly one slot, the one named by
\* pending_remove_slot when that is an integer in 1..12 and the highest-numbered
\* non-empty slot otherwise; the other slots keep their value and index,
\* pending_remove_slot becomes None and publish_all is requested; with no slot
\* selected and no slot populated the options stay and no publish is requested.
C26_RemoveButtonClearsOneSlot ==
    [][\A e \in SlotEntries :
          RemoveEntityButtonPress(e)
          => LET o == entries[e]
                 sel == o.pending_remove_slot
                 named == sel \in 1..NumSlots
             IN  IF named \/ \E i \in 1..NumSlots : o.s[i] # NoEnt
                 THEN /\ \E i \in 1..NumSlots :
                           /\ IF named THEN i = sel
                              ELSE /\ o.s[i] # NoEnt
                                   /\ \A j \in (i + 1)..NumSlots : o.s[j] = NoEnt
                           /\ entries'[e] =
                                  [o EXCEPT !.s[i] = NoEnt, !.pending_remove_slot = 0]
                      /\ out'.calls = <<PublishAllCall>>
                 ELSE /\ entries' = entries
                      /\ out'.calls = << >>
      ]_vars

\* the button has cleared the named slot 1 and left the slots behind it in place
C26_Witness ==
    /\ out.src = "remove_button"
    /\ out.calls = <<PublishAllCall>>
    /\ \E e \in SlotEntries :
           /\ entries[e].pending_remove_slot = 0
           /\ entries[e].s[1] = NoEnt
           /\ entries[e].s[3] = LightC
           /\ entries[e].s[4] = FanF

\* the option spec of the stored layout whose page is p, as a set
SpecsOnPage(d, p) ==
    {i \in 1..Len(d.option_specs) : d.option_specs[i].page_id = p}

\* the present page entries with page_order p
EntriesOnPage(ents, p) == {e \in EntryIds : ents[e].present /\ ents[e].page_order = p}

\* C27: a page change report with a numeric page p sets the header title p0b2 to
\* '<friendly name> Options' if p is an option page of the last publish_all,
\* otherwise to the home title if p is 1, otherwise to the configured title of
\* the page entry whose page_order is p, otherwise to 'Page p', and current_page
\* becomes p; a non-numeric payload changes neither.
C27_PageChangeSetsTitle ==
    [][\A payload \in PagePayloads :
          PageEvent(payload)
          => IF is_digit(payload)
             THEN LET p == int_of(payload)
                      title == out'.msgs[1]
                  IN  /\ data'.current_page = p
                      /\ title.cmd = "text" /\ title.page = 0
                      /\ title.obj = "b" /\ title.id = 2
                      /\ IF SpecsOnPage(data, p) # {}
                         THEN \E i \in SpecsOnPage(data, p) :
                                 title.text = data.option_specs[i].friendly_name \o " Options"
                         ELSE IF p = 1 THEN title.text = panels[ThisPanel].home_title
                         ELSE IF EntriesOnPage(entries, p) # {}
                              THEN \E e \in EntriesOnPage(entries, p) :
                                      title.text = entries[e].title
                         ELSE title.text = PageText(p)
             ELSE /\ data' = data
                  /\ \A i \in 1..Len(out'.msgs) : out'.msgs[i].cmd # "text"
      ]_vars

\* the panel has reported the option page of a published layout and the header
\* carries that page's title
C27_Witness ==
    /\ out.src = "page_event"
    /\ SpecsOnPage(data, data.current_page) # {}
    /\ \E i \in SpecsOnPage(data, data.current_page) :
           out.msgs[1] = SetAttr(0, "b", 2, "text",
                                 data.option_specs[i].friendly_name \o " Options")

\* the entry a service call is claimed to act on: the given entry, else the only
\* registered panel, else none
ClaimedTarget(eid) ==
    IF eid # None THEN eid
    ELSE IF \E p \in PanelIds : publishers = {p}
         THEN CHOOSE p \in PanelIds : publishers = {p}
         ELSE None

\* the step had no effect but a warning
OnlyWarned ==
    /\ UNCHANGED <<entries, states, data, runs, cooldown, shown, panels, publishers, listeners>>
    /\ out'.calls = << >> /\ out'.msgs = << >> /\ out'.warned

\* the step touched no entry but target
ActedOnlyOn(target) ==
    /\ UNCHANGED <<entries, states, data, cooldown, publishers>>
    /\ \A p \in PanelIds \ {target} : panels'[p] = panels[p]
    /\ IF out'.src = "publish_all"
       THEN target = ThisPanel
       ELSE /\ runs' = runs /\ shown' = shown
            /\ out'.target \in {target, None}
            /\ \A i \in 1..Len(out'.calls) : out'.calls[i].data = <<target>>

\* C28: a service call with an entry_id acts on that entry only; one without
\* entry_id acts on the single registered panel when exactly one panel publisher
\* is registered, and has no effect but a warning when none or several are.
C28_ServicesRouteByEntryId ==
    [][\A eid \in ServiceEntryIds :
          LET target == ClaimedTarget(eid)
              called(svc, A) == out'.src \in {svc, "publish_all"} /\ A
              routed(svc, A) ==
                  called(svc, A) => IF target = None THEN OnlyWarned
                                    ELSE ActedOnlyOn(target)
          IN  /\ routed("svc_publish_all", svc_publish_all(eid))
              /\ routed("svc_publish_home", svc_publish_home(eid))
              /\ routed("svc_dump_layout", svc_dump_layout(eid))
              /\ \A title \in ServiceTitles :
                     routed("svc_set_home_title", svc_set_home_title(eid, title))
              /\ \A ent \in ServiceTemps :
                     routed("svc_set_temp_entity", svc_set_temp_entity(eid, ent))
              /\ (target \in publishers /\ called("svc_publish_all", svc_publish_all(eid)))
                 => \/ out'.src = "publish_all" /\ runs' # runs
                    \/ out'.calls = <<Invoke(target, "publish_all")>>
              /\ (target \in publishers /\ called("svc_publish_home", svc_publish_home(eid)))
                 => out'.target = target /\ out'.msgs # << >>
              /\ (target \in PanelIds /\ called("svc_dump_layout", svc_dump_layout(eid)))
                 => out'.target = target /\ out'.msgs # << >>
              /\ \A title \in ServiceTitles \ {""} :
                     ( /\ target \in PanelIds
                       /\ called("svc_set_home_title", svc_set_home_title(eid, title)) )
                     => panels'[target].home_title = title
              /\ \A ent \in ServiceTemps :
                     ( /\ target \in PanelIds
                       /\ called("svc_set_temp_entity", svc_set_temp_entity(eid, ent)) )
                     => panels'[target].temp_entity = ent
      ]_vars

\* a call without entry_id, with one panel registered, has just retitled that panel
C28_Witness ==
    /\ out.src = "svc_set_home_title"
    /\ out.entry_id = None
    /\ publishers = {OtherPanel}
    /\ out.target = OtherPanel
    /\ panels[OtherPanel].home_title = "Den"
    /\ panels[ThisPanel].home_title = NodeName[ThisPanel]
    /\ out.msgs = <<SetAttr(0, "b", 2, "text", "Den")>>

\* what an 'up' with value v on the button of relay k is claimed to do: one
\* output command, the one the switch entity of relay k sends, no service call
RelayTapCommands(k, v) ==
    /\ out'.msgs = <<OutputCmd(RELAYS[k][3], v = 1)>>
    /\ out'.calls = << >>
    /\ ~out'.raised

\* C29: an 'up' on the home relay buttons p1b112, p1b122 and p1b132 publishes
\* {"state":"on"} when val is 1 and {"state":"off"} otherwise to command/output1,
\* output2 and output40, the outputs the Relay 1, 2 and 3 switch entities
\* command, and makes no host service call.
C29_RelayTapCommandsOutput ==
    [][\A k \in 1..Len(RELAYS), v \in {-1, 0, 1} :
          StateEvent(RelayButton(k), "up", v) => RelayTapCommands(k, v)
      ]_vars

\* C29 (amended): the same, while no popup cooldown is active; during the
\* cooldown the tap publishes nothing.
C29_RelayTapOutsideCooldown ==
    [][\A k \in 1..Len(RELAYS), v \in {-1, 0, 1} :
          StateEvent(RelayButton(k), "up", v)
          => IF cooldown = 0 THEN RelayTapCommands(k, v)
             ELSE out'.msgs = << >> /\ out'.calls = << >>
      ]_vars

\* a tap on Relay 3 has switched output 40 on
C29_Witness ==
    /\ out.src = "state_event"
    /\ out.msgs = <<OutputCmd(40, TRUE)>>
    /\ out.calls = << >>
    /\ RelayButton(3) = Topic(1, "b", 132)

\* C30: a popup overlay can be shown: some touch event, reachable after
\* publish_all, unhides the overlay widgets 193..197 of a page and registers a
\* fan_select or light_color entry for the popup matrix p<page>m196.  With an
\* operator who takes such a touch whenever one is possible, a popup is shown
\* at some time after publish_all has stored its layout.
C30_PopupCanBeShown ==
    (\E r \in TouchRuns : runs[r].pc = "idle" /\ runs[r].ended = "stored") ~> PopupShown

\* the stored options of a page entry that the options form does not show
HiddenOptions(opts) ==
    << [i \in 7..NumSlots |-> opts.s[i]], opts.layout, opts.pending_entity,
       opts.pending_remove_slot >>

\* C33: submitting the page options flow changes only the fields it shows (page
\* order, title, s1..s6): slots s7..s12, the layout key and the pending entity
\* of the page entry are after the submission what they were before it.
C33_OptionsFlowKeepsOtherOptions ==
    [][\A e \in SlotEntries :
          ( /\ out'.src = "options_flow"
            /\ \E v1, v2 \in SlotInputs \cup {NoEnt} : OptionsFlowInit(e, v1, v2) )
          => HiddenOptions(entries'[e]) = HiddenOptions(entries[e])
      ]_vars

\* C31: when the router handles a touch event for a widget drawn on the panel,
\* every service call it makes names the entity that widget was drawn for by the
\* layout messages sent last, also while a publish_all has sent new widgets and
\* has not yet stored its maps.
C31_TouchActsOnDrawnEntity ==
    [][\A t \in DrawnTopics, i \in TouchInputs :
          ( /\ out'.src = "state_event"
            /\ StateEvent(t, i[1], i[2]) )
          => \A k \in 1..Len(out'.calls) : out'.calls[k].entity = DrawnFor(t)
      ]_vars

\* the same between the runs: with no publish_all under way, the touch of a drawn
\* widget acts on the entity the widget was drawn for
TouchActsOnDrawnEntityAtRest ==
    [][\A t \in DrawnTopics, i \in TouchInputs :
          ( /\ out'.src = "state_event"
            /\ \A r \in RunIds : runs[r].pc \notin {"pages", "store"}
            /\ StateEvent(t, i[1], i[2]) )
          => \A k \in 1..Len(out'.calls) : out'.calls[k].entity = DrawnFor(t)
      ]_vars

\* every publish_all that was called has returned, and one has stored its layout
RunsCompleted ==
    /\ \A r \in RunIds : runs[r].pc = "idle"
    /\ \E r \in RunIds : runs[r].ended \in {"stored", "stored_changed"}

\* the entities the stored layout displays, by listener kind
DisplayedOf(kind, d) ==
    IF kind = "ent" THEN DOMAIN d.ent_toggle_map \cup DOMAIN d.ent_matrix_map
    ELSE DOMAIN d.sensor_map

\* the key of hass.data[DOMAIN][entry_id] that holds the handles of a kind
UnsubOf(kind, d) == IF kind = "ent" THEN d.unsub_ent ELSE d.unsub_sensor

ListenersOn(kind, ent) == {h \in listeners : h[1] = kind /\ h[2] = ent}

ListenersRewired ==
    /\ \A kind \in {"ent", "sensor"}, ent \in Entities :
          IF ent \in DisplayedOf(kind, data)
          THEN Cardinality(ListenersOn(kind, ent)) = 1
          ELSE ListenersOn(kind, ent) = {}
    /\ \A h \in listeners : MapGet(UnsubOf(h[1], data), h[2], None) = h

\* C32: when all publish_all runs of the panel have completed, overlapping or
\* not, every entity of the stored layout has exactly one subscribed listener of
\* each kind it is displayed with (toggle/matrix, sensor), an entity not displayed
\* has none, and the handle of every subscribed listener is stored under its
\* unsub_ent_<entity> or unsub_sensor_<entity> key.
C32_OneListenerPerEntity ==
    RunsCompleted => ListenersRewired

====
